---- MODULE Spec2Model ----
(***************************************************************************)
(* Concrete Sea-of-Nodes interpreter (suntv): control stepper, memoized    *)
(* value evaluator, Phi merge engine, memory-chain replay and heap.        *)
(* Node handles are node ids (1..n); 0 stands for a null handle / hole.    *)
(***************************************************************************)
EXTENDS Integers, Sequences, FiniteSets, TLC

\* ------------------------------------------------------------------ bounds
MaxExecutes == 2
MaxArg == 3
HostStackLimit == 6

\* ------------------------------------------------------- program constants
kMaxLoopIterations == 100
kMaxControlSteps == 100000
kMaxEvalDepth == 2000

\* the texts of the three budget errors, each thrown where the node that went
\* over the budget is at hand: the text is built from the limit alone
StepsExceeded(node) ==
  "Control flow exceeded maximum steps (" \o ToString(kMaxControlSteps) \o ")"
LoopExceeded(node) ==
  "Loop exceeded maximum iterations (" \o ToString(kMaxLoopIterations) \o ")"
DepthExceeded(node) ==
  "Value evaluation exceeded max depth (" \o ToString(kMaxEvalDepth) \o ")"

\* ------------------------------------------------------------------ Value
MakeI32(x) == [k |-> "i32", v |-> x]
\* an int64_t is kept as two 32-bit halves: v its low half (read as signed),
\* hi its high half
MakeI64Of(hi, lo) == [k |-> "i64", v |-> lo, hi |-> hi]
MakeI64(x) == MakeI64Of(IF x < 0 THEN -1 ELSE 0, x)
MakeBool(b) == [k |-> "bool", v |-> IF b THEN 1 ELSE 0]
MakeRef(r) == [k |-> "ref", v |-> r]
MakeNull == [k |-> "null", v |-> 0]

is_i32(x) == x.k = "i32"
is_i64(x) == x.k = "i64"
is_bool(x) == x.k = "bool"
is_ref(x) == x.k = "ref"
is_null(x) == x.k = "null"

\* int32_t arithmetic, wrapping modulo 2^32 (the checker's integers are
\* themselves 32 bits wide, so a wrapped sum is formed from shifted halves)
INT_MAX == 2147483647
INT_MIN == -2147483647 - 1
Add32(a, b) ==
  IF a >= 0 /\ b > INT_MAX - a THEN (a + INT_MIN) + (b + INT_MIN)
  ELSE IF a < 0 /\ b < INT_MIN - a THEN (a - INT_MIN) + (b - INT_MIN)
  ELSE a + b
\* ++ on an int32_t: the build wraps INT_MAX to INT_MIN
Inc32(a) == IF a = INT_MAX THEN INT_MIN ELSE a + 1
Neg32(a) == IF a = INT_MIN THEN INT_MIN ELSE -a
Sub32(a, b) == IF b = INT_MIN THEN Add32(Add32(a, INT_MAX), 1) ELSE Add32(a, -b)
\* the product modulo 2^32, formed from limbs of 11, 11 and 10 bits so that no
\* intermediate leaves the checker's integers
Mul32(a, b) ==
  LET a0 == a % 2048
      a1 == (a \div 2048) % 2048
      a2 == (a \div 4194304) % 1024
      b0 == b % 2048
      b1 == (b \div 2048) % 2048
      b2 == (b \div 4194304) % 1024
      t0 == a0 * b0
      u1 == a0 * b1 + a1 * b0 + (t0 \div 2048)
      u2 == a0 * b2 + a1 * b1 + a2 * b0 + (u1 \div 2048)
      r2 == u2 % 1024
  IN (IF r2 >= 512 THEN r2 - 1024 ELSE r2) * 4194304 + (u1 % 2048) * 2048 + (t0 % 2048)
AbsInt(x) == IF x < 0 THEN -x ELSE x
\* C++ integer division truncates toward zero
RECURSIVE TruncDiv(_, _)
TruncDiv(a, b) ==
  IF b = INT_MIN THEN (IF a = INT_MIN THEN 1 ELSE 0)
  ELSE IF b < 0 THEN -TruncDiv(a, -b)
  ELSE IF a < 0 /\ a % b # 0 THEN (a \div b) + 1
  ELSE a \div b
TruncMod(a, b) == a - b * TruncDiv(a, b)

\* x & 0x1F and x & 0x3F on a two's-complement x
Mask5(x) == x % 32
Mask6(x) == x % 64
\* 1 << n as an int32_t, n in 0..31
Pow2_32(n) == IF n = 31 THEN INT_MIN ELSE 2 ^ n
\* a << n, a >> n (sign-propagating) and (uint32_t)a >> n on 32 bits, n in 0..31
Shl32(a, n) == Mul32(a, Pow2_32(n))
Sar32(a, n) == IF n = 31 THEN (IF a < 0 THEN -1 ELSE 0) ELSE a \div (2 ^ n)
Shr32_SignFill(a, n) == Sar32(a, n)
Shr32(a, n) ==
  IF n = 0 \/ a >= 0 THEN Sar32(a, n)
  ELSE (Sar32(a, n) + 2 ^ (31 - n)) + 2 ^ (31 - n)
\* the same on the two halves of 64 bits, n in 0..63; the halves never overlap,
\* so their union is their wrapped sum
Shl64(hi, lo, n) ==
  IF n = 0 THEN MakeI64Of(hi, lo)
  ELSE IF n < 32 THEN MakeI64Of(Add32(Shl32(hi, n), Shr32(lo, 32 - n)), Shl32(lo, n))
  ELSE MakeI64Of(Shl32(lo, n - 32), 0)
Sar64(hi, lo, n) ==
  IF n = 0 THEN MakeI64Of(hi, lo)
  ELSE IF n < 32 THEN MakeI64Of(Sar32(hi, n), Add32(Shr32(lo, n), Shl32(hi, 32 - n)))
  ELSE MakeI64Of(IF hi < 0 THEN -1 ELSE 0, Sar32(hi, n - 32))
Shr64(hi, lo, n) ==
  IF n = 0 THEN MakeI64Of(hi, lo)
  ELSE IF n < 32 THEN MakeI64Of(Shr32(hi, n), Add32(Shr32(lo, n), Shl32(hi, 32 - n)))
  ELSE MakeI64Of(0, Shr32(hi, n - 32))
\* a & b, a | b, a ^ b, one byte at a time
BitOf(op, x, y) ==
  CASE op = "And" -> x * y
    [] op = "Or" -> IF x + y > 0 THEN 1 ELSE 0
    [] op = "Xor" -> (x + y) % 2
RECURSIVE Bits8(_, _, _, _)
Bits8(op, a, b, n) ==
  IF n = 0 THEN 0
  ELSE BitOf(op, a % 2, b % 2) + 2 * Bits8(op, a \div 2, b \div 2, n - 1)
Bits32(op, a, b) ==
  LET byte(x, i) == (x \div (256 ^ i)) % 256
      r(i) == Bits8(op, byte(a, i), byte(b, i), 8)
  IN (IF r(3) >= 128 THEN r(3) - 256 ELSE r(3)) * 16777216
       + r(2) * 65536 + r(1) * 256 + r(0)

\* ------------------------------------------------------------ ConcreteHeap
EmptyFn == [x \in {} |-> 0]
FnPut(f, key, val) == [x \in DOMAIN f \cup {key} |-> IF x = key THEN val ELSE f[x]]
FnRestrict(f, S) == [x \in DOMAIN f \cap S |-> f[x]]

ConcreteHeap ==
  [next_ref_ |-> 1, fields_ |-> EmptyFn, arrays_ |-> EmptyFn,
   array_lengths_ |-> EmptyFn]

\* each heap operation returns [h |-> heap after, v |-> result, ok, m |-> message]
HeapOk(h, val) == [h |-> h, v |-> val, ok |-> TRUE, m |-> ""]
HeapFail(h, msg) == [h |-> h, v |-> MakeI32(0), ok |-> FALSE, m |-> msg]

\* AllocateObject that hands out next_ref_ without advancing it
AllocateObject_NoAdvance(h) == HeapOk(h, h.next_ref_)

AllocateObject(h) ==
  HeapOk([h EXCEPT !.next_ref_ = Inc32(@)], h.next_ref_)

\* AllocateArray that takes the Ref before it tests the length
AllocateArray_AdvanceFirst(h, length) ==
  IF length < 0
  THEN HeapFail([h EXCEPT !.next_ref_ = Inc32(@)], "Negative array length")
  ELSE HeapOk([h EXCEPT !.next_ref_ = Inc32(@),
                        !.arrays_ = FnPut(@, h.next_ref_,
                                          [i \in 1..length |-> MakeI32(0)]),
                        !.array_lengths_ = FnPut(@, h.next_ref_, length)],
              h.next_ref_)

AllocateArray(h, length) ==
  IF length < 0 THEN HeapFail(h, "Negative array length")
  ELSE HeapOk([h EXCEPT !.next_ref_ = Inc32(@),
                        !.arrays_ = FnPut(@, h.next_ref_,
                                          [i \in 1..length |-> MakeI32(0)]),
                        !.array_lengths_ = FnPut(@, h.next_ref_, length)],
              h.next_ref_)

ReadField(h, obj, field) ==
  IF <<obj, field>> \in DOMAIN h.fields_
  THEN HeapOk(h, h.fields_[<<obj, field>>])
  ELSE HeapOk(h, MakeI32(0))

\* WriteField with std::map::insert, which keeps the value of an existing key
WriteField_Insert(h, obj, field, val) ==
  IF <<obj, field>> \in DOMAIN h.fields_ THEN HeapOk(h, val)
  ELSE HeapOk([h EXCEPT !.fields_ = FnPut(@, <<obj, field>>, val)], val)

WriteField(h, obj, field, val) ==
  HeapOk([h EXCEPT !.fields_ = FnPut(@, <<obj, field>>, val)], val)

\* element i of the C++ vector is element i+1 of the sequence
ReadArray(h, arr, index) ==
  IF arr \notin DOMAIN h.arrays_ THEN HeapFail(h, "Invalid array reference")
  ELSE IF index < 0 \/ index >= Len(h.arrays_[arr])
       THEN HeapFail(h, "Array index out of bounds")
       ELSE HeapOk(h, h.arrays_[arr][index + 1])

\* WriteArray that grows the vector when index is one past its end
WriteArray_Append(h, arr, index, val) ==
  IF arr \notin DOMAIN h.arrays_ THEN HeapFail(h, "Invalid array reference")
  ELSE IF index < 0 \/ index > Len(h.arrays_[arr])
       THEN HeapFail(h, "Array index out of bounds")
       ELSE IF index = Len(h.arrays_[arr])
            THEN HeapOk([h EXCEPT !.arrays_[arr] = Append(@, val)], val)
            ELSE HeapOk([h EXCEPT !.arrays_[arr][index + 1] = val], val)

WriteArray(h, arr, index, val) ==
  IF arr \notin DOMAIN h.arrays_ THEN HeapFail(h, "Invalid array reference")
  ELSE IF index < 0 \/ index >= Len(h.arrays_[arr])
       THEN HeapFail(h, "Array index out of bounds")
       ELSE HeapOk([h EXCEPT !.arrays_[arr][index + 1] = val], val)

\* ArrayLength that answers 0 for a Ref it does not know
ArrayLength_Lenient(h, arr) ==
  IF arr \notin DOMAIN h.array_lengths_ THEN HeapOk(h, 0)
  ELSE HeapOk(h, h.array_lengths_[arr])

ArrayLength(h, arr) ==
  IF arr \notin DOMAIN h.array_lengths_
  THEN HeapFail(h, "Invalid array reference")
  ELSE HeapOk(h, h.array_lengths_[arr])

\* ------------------------------------------------------------------- Node
\* a node: opcode, ordered inputs (0 = hole), property bag
N(op, in, p) == [op |-> op, in |-> in, p |-> p]
NP == EmptyFn

\* ------------------------------------------------------------ test graphs
\* int fib(int n): the IterativeFibonacci unit-test graph
G_Fib ==
  << N("Start", <<>>, NP),                    \* 1
     N("Root", <<25>>, NP),                   \* 2
     N("Parm", <<>>, [index |-> 0]),          \* 3  n
     N("ConI", <<>>, [value |-> 1]),          \* 4
     N("CmpI", <<3, 4>>, NP),                 \* 5
     N("Bool", <<5>>, [mask |-> 3]),          \* 6  n <= 1
     N("If", <<1, 6>>, NP),                   \* 7
     N("IfTrue", <<7>>, NP),                  \* 8
     N("IfFalse", <<7>>, NP),                 \* 9
     N("Return", <<8, 3>>, NP),               \* 10 return n
     N("ConI", <<>>, [value |-> 0]),          \* 11
     N("ConI", <<>>, [value |-> 2]),          \* 12
     N("Region", <<9, 22>>, NP),              \* 13 loop header
     N("Phi", <<13, 11, 15>>, NP),            \* 14 a' = b
     N("Phi", <<13, 4, 17>>, NP),             \* 15 b' = a + b
     N("Phi", <<13, 12, 18>>, NP),            \* 16 i' = i + 1
     N("AddI", <<14, 15>>, NP),               \* 17
     N("AddI", <<16, 4>>, NP),                \* 18
     N("CmpI", <<18, 3>>, NP),                \* 19
     N("Bool", <<19>>, [mask |-> 3]),         \* 20 i + 1 <= n
     N("If", <<13, 20>>, NP),                 \* 21
     N("IfTrue", <<21>>, NP),                 \* 22
     N("IfFalse", <<21>>, NP),                \* 23
     N("Return", <<23, 15>>, NP),             \* 24 return b
     N("Region", <<10, 24>>, NP) >>           \* 25

\* x = (p0 > 0) ? p0 / p1 : 0; return x   (acyclic merge through a Phi)
G_Diamond ==
  << N("Start", <<>>, NP),                    \* 1
     N("Root", <<13>>, NP),                   \* 2
     N("Parm", <<>>, [index |-> 0]),          \* 3
     N("Parm", <<>>, [index |-> 1]),          \* 4
     N("ConI", <<>>, [value |-> 0]),          \* 5
     N("CmpI", <<3, 5>>, NP),                 \* 6
     N("Bool", <<6>>, [mask |-> 4]),          \* 7  p0 > 0
     N("If", <<1, 7>>, NP),                   \* 8
     N("IfTrue", <<8>>, NP),                  \* 9
     N("IfFalse", <<8>>, NP),                 \* 10
     N("Region", <<9, 10>>, NP),              \* 11
     N("Phi", <<11, 14, 5>>, NP),             \* 12
     N("Return", <<11, 12>>, NP),             \* 13
     N("DivI", <<3, 4>>, NP) >>               \* 14

\* return p0 <op> p1
G_Arith(op) ==
  << N("Start", <<>>, NP),                    \* 1
     N("Root", <<6>>, NP),                    \* 2
     N("Parm", <<>>, [index |-> 0]),          \* 3
     N("Parm", <<>>, [index |-> 1]),          \* 4
     N(op, <<3, 4>>, NP),                     \* 5
     N("Return", <<1, 5>>, NP) >>             \* 6

\* return <op> p0
G_Unary(op) ==
  << N("Start", <<>>, NP), N("Root", <<5>>, NP),
     N("Parm", <<>>, [index |-> 0]),
     N(op, <<3>>, NP),
     N("Return", <<1, 4>>, NP) >>

\* the graphs of one i32 arithmetic node over the parameters
ArithGraphs ==
  {G_Arith(op) : op \in {"AddI", "SubI", "MulI", "DivI", "ModI"}}
    \cup {G_Unary("AbsI")}

\* the graphs of one shift node: p0 shifted by p1
ShiftOps == {"LShiftI", "RShiftI", "URShiftI", "LShiftL", "RShiftL", "URShiftL"}
ShiftGraphs == {G_Arith(op) : op \in ShiftOps}

\* return new int[p0]
G_NewArray ==
  << N("Start", <<>>, NP),                    \* 1
     N("Root", <<5>>, NP),                    \* 2
     N("Parm", <<>>, [index |-> 0]),          \* 3
     N("AllocateArray", <<1, 3>>, NP),        \* 4
     N("Return", <<1, 4>>, NP) >>             \* 5

\* return (p0 / p1 == 0) ? 1 : 0   (the division feeds an If condition)
G_IfDiv ==
  << N("Start", <<>>, NP),                    \* 1
     N("Root", <<13>>, NP),                   \* 2
     N("Parm", <<>>, [index |-> 0]),          \* 3
     N("Parm", <<>>, [index |-> 1]),          \* 4
     N("ModI", <<3, 4>>, NP),                 \* 5
     N("ConI", <<>>, [value |-> 0]),          \* 6
     N("CmpI", <<5, 6>>, NP),                 \* 7
     N("Bool", <<7>>, [mask |-> 2]),          \* 8
     N("If", <<1, 8>>, NP),                   \* 9
     N("IfTrue", <<9>>, NP),                  \* 10
     N("IfFalse", <<9>>, NP),                 \* 11
     N("ConI", <<>>, [value |-> 1]),          \* 12
     N("Return", <<10, 12>>, NP),             \* 13
     N("Return", <<11, 6>>, NP) >>            \* 14

\* o = new Object; o.x = p0; o.x = p1; return o.x
G_TwoStores ==
  << N("Start", <<>>, NP),                                  \* 1
     N("Root", <<9>>, NP),                                  \* 2
     N("Allocate", <<1>>, NP),                              \* 3
     N("Parm", <<>>, [index |-> 0]),                        \* 4
     N("Parm", <<>>, [index |-> 1]),                        \* 5
     N("StoreI", <<1, 1, 3, 4>>, [field |-> "x"]),          \* 6 S_1
     N("StoreI", <<1, 6, 3, 5>>, [field |-> "x"]),          \* 7 S_2
     N("LoadI", <<1, 7, 3>>, [field |-> "x"]),              \* 8
     N("Return", <<1, 8>>, NP) >>                           \* 9

\* a = new int[2]; a[0] = p0; a[0] = p1; return a[0]
G_TwoStoresArray ==
  << N("Start", <<>>, NP),                                  \* 1
     N("Root", <<11>>, NP),                                 \* 2
     N("ConI", <<>>, [value |-> 2]),                        \* 3
     N("AllocateArray", <<1, 3>>, NP),                      \* 4
     N("ConI", <<>>, [value |-> 0]),                        \* 5
     N("Parm", <<>>, [index |-> 0]),                        \* 6
     N("Parm", <<>>, [index |-> 1]),                        \* 7
     N("StoreI", <<1, 1, 4, 5, 6>>, [array |-> TRUE]),      \* 8 S_1
     N("StoreI", <<1, 8, 4, 5, 7>>, [array |-> TRUE]),      \* 9 S_2
     N("LoadI", <<1, 9, 4, 5>>, [array |-> TRUE]),          \* 10
     N("Return", <<1, 10>>, NP) >>                          \* 11

\* a = new int[2]; return a[p0]
G_LoadIndex ==
  << N("Start", <<>>, NP),                                  \* 1
     N("Root", <<7>>, NP),                                  \* 2
     N("ConI", <<>>, [value |-> 2]),                        \* 3
     N("AllocateArray", <<1, 3>>, NP),                      \* 4
     N("Parm", <<>>, [index |-> 0]),                        \* 5
     N("LoadI", <<1, 1, 4, 5>>, [array |-> TRUE]),          \* 6
     N("Return", <<1, 6>>, NP) >>                           \* 7

\* return p0.x   (the base is an int, not a reference)
G_LoadNonRef ==
  << N("Start", <<>>, NP),                                  \* 1
     N("Root", <<5>>, NP),                                  \* 2
     N("Parm", <<>>, [index |-> 0]),                        \* 3
     N("LoadI", <<1, 1, 3>>, [field |-> "x"]),              \* 4
     N("Return", <<1, 4>>, NP) >>                           \* 5

\* a = new int[p0]; return a.length   (LoadRange with a memory state at input 1)
G_LoadRange ==
  << N("Start", <<>>, NP),                                  \* 1
     N("Root", <<7>>, NP),                                  \* 2
     N("MergeMem", <<1>>, NP),                              \* 3
     N("Parm", <<>>, [index |-> 0]),                        \* 4
     N("AllocateArray", <<1, 4>>, NP),                      \* 5
     N("LoadRange", <<0, 3, 5>>, NP),                       \* 6
     N("Return", <<1, 6>>, NP) >>                           \* 7

\* i = 0; while (true) i = i + 1;
G_PhiLoop ==
  << N("Start", <<>>, NP),                    \* 1
     N("Root", <<11>>, NP),                   \* 2
     N("ConI", <<>>, [value |-> 0]),          \* 3
     N("ConI", <<>>, [value |-> 1]),          \* 4
     N("Region", <<1, 9>>, NP),               \* 5
     N("Phi", <<5, 3, 7>>, NP),               \* 6
     N("AddI", <<6, 4>>, NP),                 \* 7
     N("If", <<5, 4>>, NP),                   \* 8
     N("IfTrue", <<8>>, NP),                  \* 9
     N("IfFalse", <<8>>, NP),                 \* 10
     N("Return", <<10, 6>>, NP) >>            \* 11

\* a = 1; b = 3;
\* for (i = 0; ; i++) { for (j = 0; j + 1 < 2; j++) {}  if (!(i + 1 < p0)) break;
\*                      a = b; b = 7; }
\* return a
G_Nested ==
  << N("Start", <<>>, NP),                    \* 1
     N("Root", <<27>>, NP),                   \* 2
     N("ConI", <<>>, [value |-> 0]),          \* 3
     N("ConI", <<>>, [value |-> 1]),          \* 4
     N("ConI", <<>>, [value |-> 2]),          \* 5
     N("ConI", <<>>, [value |-> 3]),          \* 6
     N("ConI", <<>>, [value |-> 7]),          \* 7
     N("Parm", <<>>, [index |-> 0]),          \* 8
     N("Region", <<1, 25>>, NP),              \* 9  outer header
     N("Phi", <<9, 4, 11>>, NP),              \* 10 a' = b
     N("Phi", <<9, 6, 7>>, NP),               \* 11 b' = 7
     N("Phi", <<9, 3, 13>>, NP),              \* 12 i' = i + 1
     N("AddI", <<12, 4>>, NP),                \* 13
     N("Region", <<9, 20>>, NP),              \* 14 inner header
     N("Phi", <<14, 3, 16>>, NP),             \* 15 j' = j + 1
     N("AddI", <<15, 4>>, NP),                \* 16
     N("CmpI", <<16, 5>>, NP),                \* 17
     N("Bool", <<17>>, [mask |-> 1]),         \* 18 j + 1 < 2
     N("If", <<14, 18>>, NP),                 \* 19
     N("IfTrue", <<19>>, NP),                 \* 20
     N("IfFalse", <<19>>, NP),                \* 21
     N("CmpI", <<13, 8>>, NP),                \* 22
     N("Bool", <<22>>, [mask |-> 1]),         \* 23 i + 1 < p0
     N("If", <<21, 23>>, NP),                 \* 24
     N("IfTrue", <<24>>, NP),                 \* 25
     N("IfFalse", <<24>>, NP),                \* 26
     N("Return", <<26, 10>>, NP) >>           \* 27

\* a = new int[2]; return a[...]  with an address node that feeds itself
G_AddPCycle ==
  << N("Start", <<>>, NP),                    \* 1
     N("Root", <<7>>, NP),                    \* 2
     N("ConI", <<>>, [value |-> 2]),          \* 3
     N("AllocateArray", <<1, 3>>, NP),        \* 4
     N("AddP", <<0, 4, 5>>, NP),              \* 5
     N("LoadI", <<1, 1, 5>>, NP),             \* 6
     N("Return", <<1, 6>>, NP) >>             \* 7

\* two Stores whose memory inputs form a cycle
G_MemCycle ==
  << N("Start", <<>>, NP),                                  \* 1
     N("Root", <<9>>, NP),                                  \* 2
     N("Allocate", <<1>>, NP),                              \* 3
     N("ConI", <<>>, [value |-> 1]),                        \* 4
     N("ConI", <<>>, [value |-> 2]),                        \* 5
     N("StoreI", <<1, 7, 3, 4>>, [field |-> "x"]),          \* 6
     N("StoreI", <<1, 6, 3, 5>>, [field |-> "y"]),          \* 7
     N("LoadI", <<1, 7, 3>>, [field |-> "x"]),              \* 8
     N("Return", <<1, 8>>, NP) >>                           \* 9

\* int f(int a, <unused>, int c) { return c + a; }   (data Parms 2 and 0)
G_Sparse ==
  << N("Start", <<>>, NP),                    \* 1
     N("Root", <<6>>, NP),                    \* 2
     N("Parm", <<>>, [index |-> 2]),          \* 3
     N("Parm", <<>>, [index |-> 0]),          \* 4
     N("AddI", <<3, 4>>, NP),                 \* 5
     N("Return", <<1, 5>>, NP) >>             \* 6

\* a ParsePredicate without an IfFalse projection, then a RangeCheck on a long
G_Branches ==
  << N("Start", <<>>, NP),                    \* 1
     N("Root", <<10>>, NP),                   \* 2
     N("Parm", <<>>, [index |-> 0]),          \* 3
     N("ParsePredicate", <<1, 3>>, NP),       \* 4
     N("IfTrue", <<4>>, NP),                  \* 5
     N("ConL", <<>>, [value |-> 5]),          \* 6
     N("RangeCheck", <<5, 6>>, NP),           \* 7
     N("IfTrue", <<7>>, NP),                  \* 8
     N("IfFalse", <<7>>, NP),                 \* 9
     N("Return", <<8, 6>>, NP),               \* 10
     N("Return", <<9, 6>>, NP) >>             \* 11

\* a Return with the input layout of a compiled method: a parameter, a hole,
\* two values and a parameter again
G_RetFrame ==
  << N("Start", <<>>, NP),                    \* 1
     N("Root", <<6>>, NP),                    \* 2
     N("Parm", <<>>, [index |-> 0]),          \* 3
     N("ConI", <<>>, [value |-> 7]),          \* 4
     N("ConI", <<>>, [value |-> 9]),          \* 5
     N("Return", <<1, 3, 0, 4, 5, 3>>, NP) >> \* 6

\* a = new int[2]; a[0] = p0; a[1] = p0; return a[1], where the Load reads the
\* memory state of the first Store only
G_DeadStore ==
  << N("Start", <<>>, NP),                                  \* 1
     N("Root", <<11>>, NP),                                 \* 2
     N("ConI", <<>>, [value |-> 2]),                        \* 3
     N("AllocateArray", <<1, 3>>, NP),                      \* 4
     N("ConI", <<>>, [value |-> 0]),                        \* 5
     N("ConI", <<>>, [value |-> 1]),                        \* 6
     N("Parm", <<>>, [index |-> 0]),                        \* 7
     N("StoreI", <<1, 1, 4, 5, 7>>, [array |-> TRUE]),      \* 8 S_1
     N("StoreI", <<1, 8, 4, 6, 7>>, [array |-> TRUE]),      \* 9 S_2
     N("LoadI", <<1, 8, 4, 6>>, [array |-> TRUE]),          \* 10
     N("Return", <<1, 9, 10>>, NP) >>                       \* 11

\* Object f(Object o) { o.x = o; return o.x; }
G_RefParm ==
  << N("Start", <<>>, NP),                                  \* 1
     N("Root", <<6>>, NP),                                  \* 2
     N("Parm", <<>>, [index |-> 0, type |-> "ptr:"]),       \* 3
     N("StoreP", <<1, 1, 3, 3>>, [field |-> "x"]),          \* 4
     N("LoadP", <<1, 4, 3>>, [field |-> "x"]),              \* 5
     N("Return", <<1, 5>>, NP) >>                           \* 6

\* control runs into a dead end
G_NoReturn ==
  << N("Start", <<>>, NP),                    \* 1
     N("Root", <<3>>, NP),                    \* 2
     N("Goto", <<1>>, NP) >>                  \* 3

\* while (true) {}   (a Region without data Phis)
G_Spin ==
  << N("Start", <<>>, NP),                    \* 1
     N("Root", <<3>>, NP),                    \* 2
     N("Region", <<1, 4>>, NP),               \* 3
     N("Goto", <<3>>, NP) >>                  \* 4

\* return p0 ? T : (int) T, where T is a value kMaxEvalDepth nodes deep: a
\* constant under kMaxEvalDepth - 1 casts, each the input of the next
G_Deep ==
  LET L == kMaxEvalDepth - 1 IN
  << N("Start", <<>>, NP),                    \* 1
     N("Root", <<L + 9>>, NP),                \* 2
     N("Parm", <<>>, [index |-> 0]),          \* 3
     N("If", <<1, 3>>, NP),                   \* 4
     N("IfTrue", <<4>>, NP),                  \* 5
     N("IfFalse", <<4>>, NP),                 \* 6
     N("ConI", <<>>, [value |-> 1]) >>        \* 7
  \o [i \in 1..L |-> N("CastII", <<0, i + 6>>, NP)]   \* 8 .. L + 7 = T
  \o << N("CastII", <<0, L + 7>>, NP),        \* L + 8   (int) T
        N("Return", <<5, L + 7>>, NP),        \* L + 9   return T
        N("Return", <<6, L + 8>>, NP) >>      \* L + 10  return (int) T

\* return Bool(p0): the condition of the Bool node is in its properties
G_Bool(props) ==
  << N("Start", <<>>, NP), N("Root", <<5>>, NP),
     N("Parm", <<>>, [index |-> 0]),
     N("Bool", <<3>>, props),
     N("Return", <<1, 4>>, NP) >>

\* a condition text is held as its characters: EvalBool searches it
CondNames == {<<"l", "t">>, <<"l", "e">>, <<"e", "q">>, <<"n", "e">>, <<"g", "e">>,
              <<"g", "t">>}
CondTexts == {<<"[">> \o c \o <<"]">> : c \in CondNames} \cup {<<"n", "e">>}
BoolProps ==
  {[mask |-> m] : m \in 0..7}
    \cup {[dump_spec |-> t] : t \in CondTexts}
    \cup {[mask |-> 1, dump_spec |-> <<"[", "g", "t", "]">>], NP}
BoolGraphs == {G_Bool(props) : props \in BoolProps}

\* Start has two control successors, nodes 5 and 6, of the given opcodes and
\* properties; each one leads to a Return of its own
SuccNode(op, self, value, props) ==
  CASE op = "Return" -> N(op, <<1, value>>, props)
    [] op = "Region" -> N(op, <<self, 1>>, props)
    [] OTHER -> N(op, <<1>>, props)
G_Succ(opa, pa, opb, pb) ==
  << N("Start", <<>>, [idx |-> 10, bci |-> 10]),
     N("Root", <<7, 8>>, NP),
     N("ConI", <<>>, [value |-> 1]),
     N("ConI", <<>>, [value |-> 2]),
     SuccNode(opa, 5, 3, pa),
     SuccNode(opb, 6, 4, pb),
     N("Return", <<5, 3>>, NP),
     N("Return", <<6, 4>>, NP) >>
SuccOps == {"Return", "Halt", "Goto", "Region"}
SuccProps ==
  {NP, [is_block_start |-> TRUE], [is_block_proj |-> TRUE],
   [idx |-> 11, bci |-> 15], [idx |-> 12, bci |-> 12], [idx |-> 9, bci |-> 10]}
SuccGraphs ==
  {G_Succ(opa, pa, opb, pb) : opa \in SuccOps, pa \in SuccProps,
                              opb \in SuccOps, pb \in SuccProps}

\* return p0 ? 10 : 20 through a Phi (node 8) on a Region (node 7), the
\* inputs of both as given: 0 is a hole, 7 the Region, 8 the Phi itself
G_Phi(rin, pin) ==
  << N("Start", <<>>, NP),                    \* 1
     N("Root", <<11>>, NP),                   \* 2
     N("Parm", <<>>, [index |-> 0]),          \* 3
     N("If", <<1, 3>>, NP),                   \* 4
     N("IfTrue", <<4>>, NP),                  \* 5
     N("IfFalse", <<4>>, NP),                 \* 6
     N("Region", rin, NP),                    \* 7
     N("Phi", pin, NP),                       \* 8
     N("ConI", <<>>, [value |-> 10]),         \* 9
     N("ConI", <<>>, [value |-> 20]),         \* 10
     N("Return", <<7, 8>>, NP) >>             \* 11
RegionInputs == {<<5, 6>>, <<7, 5, 6>>, <<0, 5, 6>>}
PhiValueInputs == {0, 8, 9, 10}
PhiInputs ==
  {<<7, a, b>> : a \in PhiValueInputs, b \in PhiValueInputs}
    \cup {<<7, a, b, c>> : a \in PhiValueInputs, b \in PhiValueInputs,
                           c \in PhiValueInputs}
PhiGraphs == {G_Phi(rin, pin) : rin \in RegionInputs, pin \in PhiInputs}

\* a = new int[p0]; i = 0; do { i = i + 1; } while (i < a.length); return a
G_AllocLoop ==
  << N("Start", <<>>, NP),                    \* 1
     N("Root", <<17>>, NP),                   \* 2
     N("MergeMem", <<1>>, NP),                \* 3
     N("Parm", <<>>, [index |-> 0]),          \* 4
     N("AllocateArray", <<1, 4>>, NP),        \* 5  a
     N("LoadRange", <<0, 3, 5>>, NP),         \* 6  a.length
     N("ConI", <<>>, [value |-> 0]),          \* 7
     N("ConI", <<>>, [value |-> 1]),          \* 8
     N("Region", <<1, 15>>, NP),              \* 9  loop header
     N("Phi", <<9, 7, 11>>, NP),              \* 10 i' = i + 1
     N("AddI", <<10, 8>>, NP),                \* 11
     N("CmpI", <<11, 6>>, NP),                \* 12
     N("Bool", <<12>>, [mask |-> 1]),         \* 13 i + 1 < a.length
     N("If", <<9, 13>>, NP),                  \* 14
     N("IfTrue", <<14>>, NP),                 \* 15
     N("IfFalse", <<14>>, NP),                \* 16
     N("Return", <<16, 5>>, NP) >>            \* 17

\* o.x = o.x + 1; t = (o.x != 0) ? 1 : 2; return o.x + t
G_StoreTwice ==
  << N("Start", <<>>, NP),                                  \* 1
     N("Root", <<17>>, NP),                                 \* 2
     N("Parm", <<>>, [index |-> 0, type |-> "ptr:"]),       \* 3
     N("ConI", <<>>, [value |-> 1]),                        \* 4
     N("LoadI", <<1, 1, 3>>, [field |-> "x"]),              \* 5  o.x before
     N("AddI", <<5, 4>>, NP),                               \* 6
     N("StoreI", <<1, 1, 3, 6>>, [field |-> "x"]),          \* 7  o.x = o.x + 1
     N("LoadI", <<1, 7, 3>>, [field |-> "x"]),              \* 8  o.x after
     N("If", <<1, 8>>, NP),                                 \* 9
     N("IfTrue", <<9>>, NP),                                \* 10
     N("IfFalse", <<9>>, NP),                               \* 11
     N("Region", <<10, 11>>, NP),                           \* 12
     N("ConI", <<>>, [value |-> 2]),                        \* 13
     N("Phi", <<12, 4, 13>>, NP),                           \* 14 t
     N("LoadI", <<12, 7, 3>>, [field |-> "x"]),             \* 15 o.x after
     N("AddI", <<15, 14>>, NP),                             \* 16
     N("Return", <<12, 16>>, NP) >>                         \* 17

Graphs ==
  << G_Fib, G_Diamond, G_Arith("DivI"), G_Arith("ModI"), G_Arith("DivL"),
     G_Arith("ModL"), G_NewArray, G_IfDiv, G_TwoStores, G_TwoStoresArray,
     G_LoadIndex, G_LoadNonRef, G_LoadRange, G_PhiLoop, G_Nested,
     G_AddPCycle, G_MemCycle, G_Sparse, G_Branches, G_RetFrame,
     G_DeadStore, G_RefParm,
     G_NoReturn, G_Spin, G_Deep >>
\* G_Spin is run only under SpecBudget, G_Deep only under SpecDeep
MainGraphs == 1..(Len(Graphs) - 2)
BudgetGraphs == {Len(Graphs) - 1, Len(Graphs) - 2}
DeepGraphs == {Len(Graphs)}

\* ------------------------------------------------------------------ state
VARIABLES
  graph,            \* graph_: the graph this Interpreter was constructed on
  interp,           \* the Interpreter object's mutable members
  pc,               \* "idle" | "running" | "returned" | "raised" | "crashed"
  current_control,  \* ExecuteWithHeap local: current control node (0 = null)
  step_count,       \* ExecuteWithHeap local
  outcome,          \* the Outcome returned by the last Execute
  error,            \* message of the exception the last Execute raised
  executes,         \* number of Execute calls made on this Interpreter
  inputs,           \* ExecuteWithHeap argument of the call under way
  initial_heap,     \* ExecuteWithHeap argument: the caller's heap
  hist,             \* history of the last step, for stating properties
  client_heap,      \* a ConcreteHeap driven directly through its public methods
  client_call,      \* the last call made on client_heap, with its result
  client_log,       \* history of client_heap: Refs returned, values written
  eval_count,       \* EvalNode's function-static call counter
  workers,          \* threads that each run Execute on an Interpreter of their own
  touched           \* <<variable, owner, worker>>: who read or wrote what

exec_vars == <<graph, interp, pc, current_control, step_count, outcome, error,
               executes, inputs, initial_heap, hist>>
client_vars == <<client_heap, client_call, client_log>>
worker_vars == <<eval_count, workers, touched>>
vars == <<exec_vars, client_vars, worker_vars>>

Nodes == graph
NodeIds == 1..Len(Nodes)
Nd(n) == Nodes[n]
opcode(n) == Nd(n).op
num_inputs(n) == Len(Nd(n).in)
input(n, i) == Nd(n).in[i + 1]          \* input(i), i counted from 0
has_prop(n, key) == key \in DOMAIN Nd(n).p
prop(n, key) == Nd(n).p[key]
start == CHOOSE n \in NodeIds : opcode(n) = "Start"

\* --------------------------------------------------------- opcode classes
StoreOps == {"StoreB", "StoreC", "StoreI", "StoreL", "StoreP", "StoreN"}
LoadOps == {"LoadB", "LoadUB", "LoadS", "LoadUS", "LoadI", "LoadL", "LoadP",
            "LoadN"}
CastOps == {"CastII", "CastLL", "CastPP", "CastX2P", "CastP2X"}
IsArithmetic(op) ==
  op \in {"AddI", "SubI", "MulI", "DivI", "ModI", "AbsI", "AddL", "SubL",
          "MulL", "DivL", "ModL", "AbsL", "ConvI2L", "ConvL2I"}
IsBitwise(op) ==
  op \in {"AndI", "OrI", "XorI", "LShiftI", "RShiftI", "URShiftI", "AndL",
          "OrL", "XorL", "LShiftL", "RShiftL", "URShiftL"}
IsComparison(op) == op \in {"CmpI", "CmpL", "CmpP", "CmpU", "CmpUL"}

GetSchema(op) ==
  IF op = "Start" THEN "S7"
  ELSE IF op \in {"If", "IfTrue", "IfFalse", "Goto", "Halt", "SafePoint",
                  "ParsePredicate", "CallStaticJava", "RangeCheck", "Root"}
       THEN "S1"
  ELSE IF op \in {"Phi", "Region", "MergeMem"} THEN "S2"
  ELSE IF op \in LoadOps \cup {"LoadRange"} THEN "S3"
  ELSE IF op \in StoreOps THEN "S4"
  ELSE IF op \in {"Allocate", "AllocateArray"} THEN "S5"
  ELSE IF op = "Return" THEN "S6"
  ELSE IF op = "Proj" THEN "S8"
  ELSE IF op = "Parm" THEN "S9"
  ELSE IF op = "Unknown" THEN "Unknown"
  ELSE "S0"

schema(n) == GetSchema(opcode(n))

\* the non-null inputs from position `from` (0-based) on, in order
RECURSIVE InputsFrom(_, _)
InputsFrom(n, from) ==
  IF from >= num_inputs(n) THEN <<>>
  ELSE (IF input(n, from) # 0 THEN <<input(n, from)>> ELSE <<>>)
       \o InputsFrom(n, from + 1)

value_inputs(n) ==
  LET s == schema(n) IN
  IF s = "S0" THEN InputsFrom(n, 0)
  ELSE IF s = "S1" THEN InputsFrom(n, 1)
  ELSE IF s = "S2" THEN (IF opcode(n) = "Phi" THEN InputsFrom(n, 1) ELSE <<>>)
  ELSE IF s \in {"S3", "S4", "S5"} THEN InputsFrom(n, 2)
  ELSE IF s \in {"S6", "S9"} THEN InputsFrom(n, 1)
  ELSE <<>>

region_input(n) ==
  IF opcode(n) = "Phi" /\ num_inputs(n) > 0 THEN input(n, 0) ELSE 0

phi_values(n) == IF opcode(n) = "Phi" THEN InputsFrom(n, 1) ELSE <<>>

IsNonDataTypeString(type) ==
  type \in {"control", "memory", "abIO", "return_address", "bottom"}

\* a type string is data iff it is one of the scalar kinds that end with ':'
DataTypeStrings == {"int:", "long:", "ptr:", "rawptr:"}
IsDataTypeString(type) ==
  /\ type # ""
  /\ ~IsNonDataTypeString(type)
  /\ type \in DataTypeStrings

IsDataPhiNode(n) ==
  /\ n # 0
  /\ opcode(n) = "Phi"
  /\ IF ~has_prop(n, "type") THEN TRUE
     ELSE /\ prop(n, "type") \notin {"memory", "control", "abIO", "return_address"}
          /\ IsDataTypeString(prop(n, "type"))

\* the data Phis of a Region, in graph_.nodes() order
DataPhisOf(region) ==
  SelectSeq([i \in NodeIds |-> i],
            LAMBDA n : opcode(n) = "Phi" /\ region_input(n) = region
                       /\ IsDataPhiNode(n))

\* ------------------------------------------------ control-successor map
IsControlLike(op) ==
  op \in {"If", "IfTrue", "IfFalse", "Goto", "Return", "Halt", "SafePoint",
          "ParsePredicate", "CallStaticJava", "Region", "Proj", "Parm",
          "RangeCheck"}

\* n is recorded as a control consumer of pred
ConsumesControlOf(n, pred) ==
  /\ IsControlLike(opcode(n))
  /\ IF opcode(n) = "Region"
     THEN \E i \in 0..(num_inputs(n) - 1) : input(n, i) = pred /\ pred # n
     ELSE num_inputs(n) > 0 /\ input(n, 0) = pred

\* the nodes n is recorded under: its control producers
ControlPredsOf(n) ==
  IF ~IsControlLike(opcode(n)) THEN {}
  ELSE IF opcode(n) = "Region"
  THEN {input(n, i) : i \in 0..(num_inputs(n) - 1)} \ {0, n}
  ELSE IF num_inputs(n) > 0 THEN {input(n, 0)} \ {0} ELSE {}

\* producer -> consumers sorted by node id, without duplicates
BuildControlSuccessors ==
  LET preds == UNION {ControlPredsOf(n) : n \in NodeIds}
  IN [q \in preds |->
        SelectSeq([i \in NodeIds |-> i], LAMBDA n : ConsumesControlOf(n, q))]

PropIsTrue(n, key) == has_prop(n, key) /\ prop(n, key) = TRUE

\* lexicographic "less than" on equally long integer tuples
RECURSIVE LexLess(_, _)
LexLess(a, b) ==
  IF a = <<>> THEN FALSE
  ELSE IF Head(a) # Head(b) THEN Head(a) < Head(b)
  ELSE LexLess(Tail(a), Tail(b))

is_candidate(n) ==
  \/ opcode(n) \in {"Region", "If", "IfTrue", "IfFalse", "Goto", "Return",
                    "Halt", "SafePoint", "ParsePredicate", "CallStaticJava",
                    "Proj", "RangeCheck"}
  \/ opcode(n) = "Parm" /\ has_prop(n, "type") /\ prop(n, "type") = "control"

priority(op) ==
  CASE op = "Return" -> 0
    [] op = "Halt" -> 1000
    [] op \in {"If", "ParsePredicate", "RangeCheck"} -> 2
    [] op \in {"IfTrue", "IfFalse"} -> 3
    [] op = "Goto" -> 4
    [] op = "Region" -> 5
    [] op \in {"SafePoint", "CallStaticJava", "Proj"} -> 6
    [] op = "Parm" -> 7
    [] OTHER -> 100

\* forward distance d is <<0, d>>; a backward distance d, which the code
\* encodes as 2^k + d, is <<1, d>>; a missing property (2^k) is <<1, 0>>
delta(ctrl, n, key) ==
  IF has_prop(ctrl, key) /\ has_prop(n, key)
  THEN IF prop(n, key) >= prop(ctrl, key)
       THEN <<0, prop(n, key) - prop(ctrl, key)>>
       ELSE <<1, prop(ctrl, key) - prop(n, key)>>
  ELSE <<1, 0>>

score_IdxFirst(ctrl, n) ==
  << priority(opcode(n)),
     IF PropIsTrue(n, "is_block_start") THEN 0 ELSE 1,
     IF PropIsTrue(n, "is_block_proj") THEN 0 ELSE 1 >>
  \o delta(ctrl, n, "idx") \o delta(ctrl, n, "bci") \o <<n>>

score(ctrl, n) ==
  << priority(opcode(n)),
     IF PropIsTrue(n, "is_block_start") THEN 0 ELSE 1,
     IF PropIsTrue(n, "is_block_proj") THEN 0 ELSE 1 >>
  \o delta(ctrl, n, "bci") \o delta(ctrl, n, "idx") \o <<n>>

\* every Region among the successors is recorded, chosen or not
FindControlSuccessor_RecordAll(ctrl, succs_map, rp) ==
  IF ctrl = 0 \/ ctrl \notin DOMAIN succs_map THEN [node |-> 0, rp |-> rp]
  ELSE LET succs == succs_map[ctrl]
           candidates == {succs[i] : i \in {j \in 1..Len(succs) : is_candidate(succs[j])}}
           regions == {c \in candidates : opcode(c) = "Region"}
       IN IF candidates = {} THEN [node |-> 0, rp |-> rp]
          ELSE [node |-> CHOOSE c \in candidates :
                           \A d \in candidates \ {c} :
                              LexLess(score(ctrl, c), score(ctrl, d)),
                rp |-> [x \in DOMAIN rp \cup regions |->
                          IF x \in regions THEN ctrl ELSE rp[x]]]

\* returns [node |-> chosen successor (0 = none), rp |-> region_predecessor_ after]
FindControlSuccessor(ctrl, succs_map, rp) ==
  IF ctrl = 0 \/ ctrl \notin DOMAIN succs_map THEN [node |-> 0, rp |-> rp]
  ELSE LET succs == succs_map[ctrl]
           candidates == {succs[i] : i \in {j \in 1..Len(succs) : is_candidate(succs[j])}}
       IN IF candidates = {} THEN [node |-> 0, rp |-> rp]
          ELSE LET chosen == CHOOSE c \in candidates :
                               \A d \in candidates \ {c} :
                                  LexLess(score(ctrl, c), score(ctrl, d))
               IN [node |-> chosen,
                   rp |-> IF opcode(chosen) = "Region"
                          THEN FnPut(rp, chosen, ctrl) ELSE rp]

\* ------------------------------------------------------ SelectPhiInputNode
\* index (0-based) of the first Region input equal to active_pred, -1 if none
RECURSIVE PredIndexFrom(_, _, _)
PredIndexFrom(region, active_pred, i) ==
  IF i >= num_inputs(region) THEN -1
  ELSE IF input(region, i) # 0 /\ input(region, i) # region
          /\ input(region, i) = active_pred THEN i
  ELSE PredIndexFrom(region, active_pred, i + 1)

accept(phi, v, allow_self) == v # 0 /\ (allow_self \/ v # phi)

\* first acceptable Phi input among the candidate indices
RECURSIVE FirstAccepted(_, _, _)
FirstAccepted(phi, cands, allow_self) ==
  IF cands = <<>> THEN 0
  ELSE IF Head(cands) < num_inputs(phi)
          /\ accept(phi, input(phi, Head(cands)), allow_self)
       THEN input(phi, Head(cands))
  ELSE FirstAccepted(phi, Tail(cands), allow_self)

\* number of non-null, non-self Region inputs before position i
CompactedRank(region, i) ==
  Cardinality({j \in 0..(i - 1) :
                 input(region, j) # 0 /\ input(region, j) # region})

\* the input at the predecessor's own index is tried before the one after it
SelectPhiInputNode_Unaligned(phi, active_pred, allow_self) ==
  IF phi = 0 \/ opcode(phi) # "Phi" THEN 0
  ELSE LET region == region_input(phi) IN
  IF region = 0 \/ opcode(region) # "Region" THEN 0
  ELSE IF active_pred = 0 THEN 0
  ELSE LET pred_index == PredIndexFrom(region, active_pred, 0) IN
  IF pred_index = -1 THEN 0
  ELSE FirstAccepted(phi, <<pred_index, pred_index + 1>>, allow_self)

SelectPhiInputNode(phi, active_pred, allow_self) ==
  IF phi = 0 \/ opcode(phi) # "Phi" THEN 0
  ELSE LET region == region_input(phi) IN
  IF region = 0 \/ opcode(region) # "Region" THEN 0
  ELSE IF active_pred = 0 THEN 0
  ELSE LET pred_index == PredIndexFrom(region, active_pred, 0) IN
  IF pred_index = -1 THEN 0
  ELSE LET phi_n == num_inputs(phi)
           region_n == num_inputs(region)
           candidates ==
             (IF phi_n = region_n + 1 THEN <<pred_index + 1>> ELSE <<>>)
             \o (IF phi_n = region_n
                 THEN <<IF pred_index = 0 THEN 1 ELSE pred_index>> ELSE <<>>)
             \o <<pred_index + 1, pred_index>>
           direct == FirstAccepted(phi, candidates, allow_self)
           idx == 1 + CompactedRank(region, pred_index)
       IN IF direct # 0 THEN direct
          ELSE IF idx < phi_n /\ accept(phi, input(phi, idx), allow_self)
               THEN input(phi, idx)
          ELSE 0

\* ------------------------------------------------------- value evaluator
\* Every evaluation returns [s, v, e, m]: the interpreter members after it,
\* the value, and how it ended: "ok"; "trap" (an EvalException with message
\* m); "fatal" (any other C++ exception); "crash" (the host stack is gone).
NoValue == MakeI32(0)
Ok(s, val) == [s |-> s, v |-> val, e |-> "ok", m |-> ""]
Trap(s, msg) == [s |-> s, v |-> NoValue, e |-> "trap", m |-> msg]
Fatal(s, msg) ==
  [s |-> [s EXCEPT !.log_fatal = TRUE], v |-> NoValue, e |-> "fatal", m |-> msg]
Crash(s) == [s |-> s, v |-> NoValue, e |-> "crash", m |-> "stack overflow"]

\* textual properties the interpreter parses, tabulated for the strings used
ParseConstSpec(spec) ==
  CASE spec = " #int:42" -> 42
    [] spec = " #int:-5" -> -5
    [] spec = " #long:42" -> 42
    [] spec = " #long:-5" -> -5
    [] OTHER -> 0
SpecHasColon(spec) == spec \in {" #int:42", " #int:-5", " #long:42", " #long:-5"}
\* spec.find(pat) != npos
Contains(spec, pat) ==
  \E i \in 1..(Len(spec) - Len(pat) + 1) : SubSeq(spec, i, i + Len(pat) - 1) = pat
\* the searches in another order: "ne" is looked for first and read as not-EQ
SpecMask_NeFirst(spec) ==
  IF Contains(spec, <<"n", "e">>) THEN 4
  ELSE IF Contains(spec, <<"l", "e">>) THEN 3
  ELSE IF Contains(spec, <<"l", "t">>) THEN 1
  ELSE IF Contains(spec, <<"g", "e">>) THEN 6
  ELSE IF Contains(spec, <<"g", "t">>) THEN 4
  ELSE IF Contains(spec, <<"e", "q">>) THEN 2
  ELSE 0
SpecMask(spec) ==
  IF Contains(spec, <<"l", "e">>) THEN 3
  ELSE IF Contains(spec, <<"l", "t">>) THEN 1
  ELSE IF Contains(spec, <<"g", "e">>) THEN 6
  ELSE IF Contains(spec, <<"g", "t">>) THEN 4
  ELSE IF Contains(spec, <<"e", "q">>) THEN 2
  ELSE IF Contains(spec, <<"n", "e">>) THEN 5
  ELSE 0
SpecIsUncommonTrap(spec) == spec \in {"uncommon_trap", " uncommon_trap reason"}
SpecHasBracket(spec) == spec \in {"@int[int:>=0]", "[le]", "[lt]", "[ge]", "[gt]",
                                  "[eq]", "[ne]"}

MaskBit(mask, bit) == (mask \div bit) % 2 = 1

\* unsigned "less than" on two's-complement integers
ULess(a, b) == IF (a < 0) = (b < 0) THEN a < b ELSE b < 0

TriState(lt, gt) == IF lt THEN MakeI32(-1) ELSE IF gt THEN MakeI32(1) ELSE MakeI32(0)

widen_i32_to_i64(x) == IF is_i32(x) THEN MakeI64(x.v) ELSE x

IsLongOp(op) == op \in {"AddL", "SubL", "MulL", "DivL", "ModL", "AndL", "OrL",
                        "XorL", "LShiftL", "RShiftL", "URShiftL"}

\* Evaluator::EvalDivI / EvalModI: the divisor is inspected first
EvalDivI(s, a, b) ==
  IF ~is_i32(b) THEN Fatal(s, "Value is not i32")
  ELSE IF b.v = 0 THEN Trap([s EXCEPT !.log_zero_div = TRUE], "Division by zero")
  ELSE IF ~is_i32(a) THEN Fatal(s, "Value is not i32")
  ELSE IF a.v = INT_MIN /\ b.v = -1 THEN Crash(s)
  ELSE Ok(s, MakeI32(TruncDiv(a.v, b.v)))

EvalModI(s, a, b) ==
  IF ~is_i32(b) THEN Fatal(s, "Value is not i32")
  ELSE IF b.v = 0 THEN Trap([s EXCEPT !.log_zero_div = TRUE], "Modulo by zero")
  ELSE IF ~is_i32(a) THEN Fatal(s, "Value is not i32")
  ELSE IF a.v = INT_MIN /\ b.v = -1 THEN Crash(s)
  ELSE Ok(s, MakeI32(TruncMod(a.v, b.v)))

\* Evaluator::EvalDivL / EvalModL: operands are widened, then as_i64()
EvalDivL(s, a0, b0) ==
  LET a == widen_i32_to_i64(a0)
      b == widen_i32_to_i64(b0)
  IN IF ~is_i64(b) THEN Fatal(s, "Value is not i64")
     ELSE IF b.v = 0 THEN Trap([s EXCEPT !.log_zero_div = TRUE], "Division by zero")
     ELSE IF ~is_i64(a) THEN Fatal(s, "Value is not i64")
     ELSE Ok(s, MakeI64(TruncDiv(a.v, b.v)))

EvalModL(s, a0, b0) ==
  LET a == widen_i32_to_i64(a0)
      b == widen_i32_to_i64(b0)
  IN IF ~is_i64(b) THEN Fatal(s, "Value is not i64")
     ELSE IF b.v = 0 THEN Trap([s EXCEPT !.log_zero_div = TRUE], "Modulo by zero")
     ELSE IF ~is_i64(a) THEN Fatal(s, "Value is not i64")
     ELSE Ok(s, MakeI64(TruncMod(a.v, b.v)))

\* the remaining binary arithmetic of Evaluator, after both operands exist
EvalBinary(s, op, a, b) ==
  CASE op = "DivI" -> EvalDivI(s, a, b)
    [] op = "ModI" -> EvalModI(s, a, b)
    [] op = "DivL" -> EvalDivL(s, a, b)
    [] op = "ModL" -> EvalModL(s, a, b)
    [] op \in {"AddI", "SubI", "MulI"} ->
         IF ~is_i32(a) \/ ~is_i32(b) THEN Fatal(s, "Value is not i32")
         ELSE Ok(s, MakeI32(CASE op = "AddI" -> Add32(a.v, b.v)
                              [] op = "SubI" -> Sub32(a.v, b.v)
                              [] op = "MulI" -> Mul32(a.v, b.v)))
    [] op \in {"AddL", "SubL", "MulL"} ->
         IF ~is_i64(a) \/ ~is_i64(b) THEN Fatal(s, "Value is not i64")
         ELSE Ok(s, MakeI64(CASE op = "AddL" -> a.v + b.v
                              [] op = "SubL" -> a.v - b.v
                              [] op = "MulL" -> a.v * b.v))
    [] op \in {"AndI", "OrI", "XorI", "LShiftI", "RShiftI", "URShiftI"} ->
         IF ~is_i32(a) \/ ~is_i32(b) THEN Fatal(s, "Value is not i32")
         ELSE Ok(s, MakeI32(CASE op = "AndI" -> Bits32("And", a.v, b.v)
                              [] op = "OrI" -> Bits32("Or", a.v, b.v)
                              [] op = "XorI" -> Bits32("Xor", a.v, b.v)
                              [] op = "LShiftI" -> Shl32(a.v, Mask5(b.v))
                              [] op = "RShiftI" -> Sar32(a.v, Mask5(b.v))
                              [] op = "URShiftI" -> Shr32(a.v, Mask5(b.v))))
    [] op \in {"AndL", "OrL", "XorL", "LShiftL", "RShiftL", "URShiftL"} ->
         IF ~is_i64(a) \/ ~is_i64(b) THEN Fatal(s, "Value is not i64")
         ELSE Ok(s, CASE op = "AndL" -> MakeI64Of(Bits32("And", a.hi, b.hi),
                                                  Bits32("And", a.v, b.v))
                      [] op = "OrL" -> MakeI64Of(Bits32("Or", a.hi, b.hi),
                                                 Bits32("Or", a.v, b.v))
                      [] op = "XorL" -> MakeI64Of(Bits32("Xor", a.hi, b.hi),
                                                  Bits32("Xor", a.v, b.v))
                      [] op = "LShiftL" -> Shl64(a.hi, a.v, Mask6(b.v))
                      [] op = "RShiftL" -> Sar64(a.hi, a.v, Mask6(b.v))
                      [] op = "URShiftL" -> Shr64(a.hi, a.v, Mask6(b.v)))
    [] OTHER -> Fatal(s, "Unsupported arithmetic opcode")

EvalUnary(s, op, a) ==
  CASE op = "AbsI" -> IF ~is_i32(a) THEN Fatal(s, "Value is not i32")
                      ELSE Ok(s, MakeI32(IF a.v < 0 THEN Neg32(a.v) ELSE a.v))
    [] op = "AbsL" -> IF ~is_i64(widen_i32_to_i64(a)) THEN Fatal(s, "Value is not i64")
                      ELSE Ok(s, MakeI64(AbsInt(a.v)))
    [] op = "ConvI2L" -> IF ~is_i32(a) THEN Fatal(s, "Value is not i32")
                         ELSE Ok(s, MakeI64(a.v))
    [] op = "ConvL2I" -> IF ~is_i64(a) THEN Fatal(s, "Value is not i64")
                         ELSE Ok(s, MakeI32(a.v))
    [] OTHER -> Fatal(s, "Unsupported unary opcode")

EvalCompare(s, op, a0, b0) ==
  CASE op = "CmpI" ->
         IF ~is_i32(a0) \/ ~is_i32(b0) THEN Fatal(s, "Value is not i32")
         ELSE Ok(s, TriState(a0.v < b0.v, a0.v > b0.v))
    [] op = "CmpL" ->
         LET a == widen_i32_to_i64(a0)
             b == widen_i32_to_i64(b0)
         IN IF ~is_i64(a) \/ ~is_i64(b) THEN Fatal(s, "Value is not i64")
            ELSE Ok(s, TriState(a.v < b.v, a.v > b.v))
    [] op = "CmpP" ->
         IF ~is_ref(a0) /\ ~is_null(a0)
         THEN Fatal(s, "CmpP expects ref or null for first operand")
         ELSE IF ~is_ref(b0) /\ ~is_null(b0)
         THEN Fatal(s, "CmpP expects ref or null for second operand")
         ELSE LET av == IF is_null(a0) THEN 0 ELSE a0.v
                  bv == IF is_null(b0) THEN 0 ELSE b0.v
              IN Ok(s, TriState(av < bv, av > bv))
    [] op = "CmpU" ->
         IF ~is_i32(a0) \/ ~is_i32(b0) THEN Fatal(s, "Value is not i32")
         ELSE Ok(s, TriState(ULess(a0.v, b0.v), ULess(b0.v, a0.v)))
    [] op = "CmpUL" ->
         LET a == widen_i32_to_i64(a0)
             b == widen_i32_to_i64(b0)
         IN IF ~is_i64(a) \/ ~is_i64(b) THEN Fatal(s, "Value is not i64")
            ELSE Ok(s, TriState(ULess(a.v, b.v), ULess(b.v, a.v)))
    [] OTHER -> Fatal(s, "Unsupported comparison opcode")

EvalConst(s, n) ==
  LET op == opcode(n) IN
  IF op \in {"ConI", "ConL"}
  THEN IF has_prop(n, "value")
       THEN Ok(s, IF op = "ConI" THEN MakeI32(prop(n, "value"))
                  ELSE MakeI64(prop(n, "value")))
       ELSE IF has_prop(n, "dump_spec") /\ SpecHasColon(prop(n, "dump_spec"))
       THEN Ok(s, IF op = "ConI" THEN MakeI32(ParseConstSpec(prop(n, "dump_spec")))
                  ELSE MakeI64(ParseConstSpec(prop(n, "dump_spec"))))
       ELSE Fatal(s, "Con node missing 'value' or parseable 'dump_spec' property")
  ELSE IF op = "ConP" THEN Ok(s, MakeNull)
  ELSE Fatal(s, "Unknown constant opcode")

\* the guard of EvalNode (and of EvalPhi) that answers a read of a Phi of the
\* Region under update with its previous-iteration value
ReadsOldPhiValue(s, n) ==
  /\ s.in_phi_update_ /\ s.updating_region_ # 0
  /\ opcode(n) = "Phi" /\ region_input(n) = s.updating_region_
  /\ n \in DOMAIN s.phi_old_values_
  /\ (n # s.updating_phi_ \/ n \in s.phi_update_active_)

\* Node::input(i) throws std::out_of_range past the last input
InRange(n, i) == i < num_inputs(n)
OutOfRange(s) == Fatal(s, "Input index out of range")

\* a read of a Phi of the Region under update, noted for the history
NotePhiRead(s0, n, r) ==
  IF /\ r.e = "ok" /\ s0.in_phi_update_ /\ s0.updating_region_ # 0
     /\ opcode(n) = "Phi" /\ region_input(n) = s0.updating_region_
  THEN [r EXCEPT !.s.log_phi_reads = @ \cup {<<s0.updating_phi_, n, r.v>>}]
  ELSE r

RECURSIVE EvalNode(_, _)
RECURSIVE EvalDispatch(_, _)
RECURSIVE EvalCasts(_, _)
RECURSIVE EvalArithOp(_, _)
RECURSIVE EvalCmpOp(_, _)
RECURSIVE EvalPhi(_, _)
RECURSIVE EvalBool(_, _)
RECURSIVE EvalCMove(_, _)
RECURSIVE EvalConv2B(_, _)
RECURSIVE EvalNoOp(_, _)
RECURSIVE EvalAllocateArray(_, _)
RECURSIVE LoadRangeProbe(_, _, _)
RECURSIVE EvalLoadRange(_, _)
RECURSIVE EvalRangeCheckValue(_, _)
RECURSIVE EvalAddP(_, _)
RECURSIVE EvalLoad(_, _)
RECURSIVE extract_index(_, _, _)
RECURSIVE extract_index_inputs(_, _, _, _)
RECURSIVE ProcessMemoryChain(_, _)
RECURSIVE EvalStore(_, _)

\* the single element of S. A result that is read more than once is bound as
\* the element of a singleton, r \in {EvalNode(s, n)}, so that the call it
\* names is made exactly once, as in the code.
Only(S) == CHOOSE x \in S : TRUE

\* a Cast that EvalNode, asked for it in s, passes straight on to its input,
\* the node just before it in the graph
PlainCast(s, x) ==
  /\ opcode(x) \in CastOps /\ InRange(x, 1) /\ input(x, 1) = x - 1 /\ x > 1
  /\ x \notin DOMAIN s.value_cache_ /\ x \notin s.eval_active_

\* the run of plain Casts that an evaluation of m descends through while the
\* depth budget lasts: m, m - 1, ..., each asking for the next
CastRun(s, m) ==
  LET stop == {x \in 1..m : ~PlainCast(s, x)}
      lo == IF stop = {} THEN 1 ELSE 1 + (CHOOSE x \in stop : \A y \in stop : y <= x)
      room == kMaxEvalDepth - s.eval_depth_
  IN (IF m - room + 1 > lo THEN m - room + 1 ELSE lo)..m

\* EvalGuarded without the cache lookup: every request computes the node anew
EvalGuarded_NoLookup(s, n) ==
  IF schema(n) \in {"S1", "S7"}
  THEN Fatal(s, "Attempted to evaluate control node as data")
  ELSE IF opcode(n) = "Parm"
  THEN Ok(s, IF n \in DOMAIN s.value_cache_ THEN s.value_cache_[n] ELSE MakeI32(0))
  ELSE Only({ (IF r.e = "ok" THEN [r EXCEPT !.s.value_cache_ = FnPut(@, n, r.v)]
               ELSE r)
              : r \in {EvalDispatch(s, n)} })

\* the guarded part of EvalNode: schema check, cache, dispatch, memoize
EvalGuarded(s, n) ==
  IF schema(n) \in {"S1", "S7"}
  THEN Fatal(s, "Attempted to evaluate control node as data")
  ELSE IF n \in DOMAIN s.value_cache_ THEN Ok(s, s.value_cache_[n])
  ELSE IF opcode(n) = "Parm" THEN Ok(s, MakeI32(0))
  ELSE Only({ (IF r.e = "ok" THEN [r EXCEPT !.s.value_cache_ = FnPut(@, n, r.v)]
               ELSE r)
              : r \in {EvalDispatch(s, n)} })

EvalNode(s, n) ==
  IF n = 0 THEN Fatal(s, "EvalNode called with null node")
  ELSE IF ReadsOldPhiValue(s, n)
  THEN NotePhiRead(s, n, Ok(s, s.phi_old_values_[n]))
  ELSE IF n \in s.eval_active_ THEN Fatal(s, "Cyclic value evaluation detected")
  ELSE LET s1 == [s EXCEPT !.eval_active_ = @ \cup {n}, !.eval_depth_ = @ + 1] IN
       IF s1.eval_depth_ > kMaxEvalDepth
       THEN \* thrown by the guard's constructor: its destructor never runs
            Fatal([s1 EXCEPT !.eval_active_ = @ \ {n}],
                  DepthExceeded(n))
       ELSE Only({ (IF r.e = "crash" THEN r
                    ELSE NotePhiRead(s, n,
                           [r EXCEPT !.s.eval_active_ = @ \ {n},
                                     !.s.eval_depth_ = @ - 1]))
                   : r \in {EvalGuarded(s1, n)} })

\* EvalNode(s, m) where m heads a run of Casts: the frames of the run are
\* entered together, the node under the run is evaluated, and the frames are
\* left together, each caching the value on its way out
EvalCasts(s, m) ==
  LET run == CastRun(s, m) IN
  IF run = {} THEN EvalNode(s, m)
  ELSE Only({
         (IF r.e = "crash" THEN r
          ELSE [r EXCEPT
                  !.s.eval_active_ = @ \ run,
                  !.s.eval_depth_ = @ - Cardinality(run),
                  !.s.value_cache_ =
                     IF r.e # "ok" THEN @
                     ELSE [x \in DOMAIN @ \cup run |->
                             IF x \in run THEN r.v ELSE @[x]]])
         : r \in {EvalNode([s EXCEPT !.eval_active_ = @ \cup run,
                                     !.eval_depth_ = @ + Cardinality(run)],
                           m - Cardinality(run))} })

EvalDispatch(s, n) ==
  LET op == opcode(n) IN
  CASE op \in {"ConI", "ConL", "ConP"} -> EvalConst(s, n)
    [] op = "Bool" -> EvalBool(s, n)
    [] op = "Conv2B" -> EvalConv2B(s, n)
    [] op \in CastOps ->
         IF ~InRange(n, 1) THEN OutOfRange(s)
         ELSE IF input(n, 1) = 0 THEN Fatal(s, "Cast operation missing input")
         ELSE EvalCasts(s, input(n, 1))
    [] op \in {"CMoveI", "CMoveL", "CMoveP"} -> EvalCMove(s, n)
    [] op = "Phi" -> IF ~IsDataPhiNode(n) THEN Ok(s, MakeI32(0)) ELSE EvalPhi(s, n)
    [] op \in {"SafePoint", "Opaque1", "ParsePredicate", "Proj"} -> EvalNoOp(s, n)
    [] op = "ThreadLocal" -> Ok(s, MakeNull)
    [] op = "CallStaticJava" ->
         IF has_prop(n, "dump_spec") /\ SpecIsUncommonTrap(prop(n, "dump_spec"))
         THEN Ok(s, MakeI32(0))
         ELSE Fatal(s, "CallStaticJava: real method calls not supported in prototype")
    [] op = "Halt" -> Fatal(s, "Program reached Halt node (abnormal termination)")
    [] op = "Allocate" ->
         LET a == AllocateObject(s.heap_)
         IN Ok([s EXCEPT !.heap_ = a.h], MakeRef(a.v))
    [] op = "AllocateArray" -> EvalAllocateArray(s, n)
    [] op = "LoadRange" -> EvalLoadRange(s, n)
    [] op = "RangeCheck" -> EvalRangeCheckValue(s, n)
    [] op = "AddP" -> EvalAddP(s, n)
    [] op \in LoadOps -> EvalLoad(s, n)
    [] IsArithmetic(op) \/ IsBitwise(op) -> EvalArithOp(s, n)
    [] IsComparison(op) -> EvalCmpOp(s, n)
    [] OTHER -> Fatal(s, "Unsupported opcode")

\* both operands are evaluated, left to right, before the operation
EvalArithOp(s, n) ==
  LET op == opcode(n) IN
  IF op \in {"AbsI", "AbsL", "ConvI2L", "ConvL2I"}
  THEN IF num_inputs(n) < 1 THEN Fatal(s, "Unary op needs at least 1 input")
       ELSE LET operand == IF num_inputs(n) >= 2 /\ input(n, 0) = 0
                           THEN input(n, 1) ELSE input(n, 0)
            IN Only({ (IF r.e # "ok" THEN r ELSE EvalUnary(r.s, op, r.v))
                      : r \in {EvalNode(s, operand)} })
  ELSE LET vi == value_inputs(n) IN
       IF Len(vi) < 2 THEN Fatal(s, "Binary op needs at least 2 value inputs")
       ELSE Only({
              (IF ra.e # "ok" THEN ra
               ELSE Only({
                      (IF rb.e # "ok" THEN rb
                       ELSE IF IsLongOp(op)
                       THEN EvalBinary(rb.s, op, widen_i32_to_i64(ra.v),
                                       widen_i32_to_i64(rb.v))
                       ELSE EvalBinary(rb.s, op, ra.v, rb.v))
                      : rb \in {EvalNode(ra.s, vi[2])} }))
              : ra \in {EvalNode(s, vi[1])} })

EvalCmpOp(s, n) ==
  LET vi == value_inputs(n) IN
  IF Len(vi) < 2 THEN Fatal(s, "Comparison op needs at least 2 value inputs")
  ELSE Only({
         (IF ra.e # "ok" THEN ra
          ELSE Only({ (IF rb.e # "ok" THEN rb
                       ELSE EvalCompare(rb.s, opcode(n), ra.v, rb.v))
                      : rb \in {EvalNode(ra.s, vi[2])} }))
         : ra \in {EvalNode(s, vi[1])} })

EvalBool(s, n) ==
  LET vi == value_inputs(n)
      mask == IF has_prop(n, "mask") THEN prop(n, "mask")
              ELSE IF has_prop(n, "dump_spec")
              THEN SpecMask(prop(n, "dump_spec")) ELSE 0
  IN
  IF Len(vi) = 0 THEN Fatal(s, "Bool node needs comparison value input")
  ELSE IF vi[1] = 0 THEN Fatal(s, "Bool node comparison input is null")
  ELSE Only({
         (IF r.e # "ok" THEN r
          ELSE IF ~is_i32(r.v) THEN Fatal(r.s, "Bool node expects i32 comparison result")
          ELSE LET cmp_val == r.v.v
               IN Ok(r.s, MakeBool(IF cmp_val < 0 /\ MaskBit(mask, 1) THEN TRUE
                                   ELSE IF cmp_val = 0 /\ MaskBit(mask, 2) THEN TRUE
                                   ELSE cmp_val > 0 /\ MaskBit(mask, 4))))
         : r \in {EvalNode(s, vi[1])} })

EvalCMove(s, n) ==
  LET vi == value_inputs(n) IN
  IF Len(vi) < 3 THEN Fatal(s, "CMove needs 3 value inputs")
  ELSE Only({
         (IF c.e # "ok" THEN c
          ELSE IF ~is_bool(c.v) THEN Fatal(c.s, "CMove condition must be boolean")
          ELSE IF c.v.v = 1 THEN EvalNode(c.s, vi[2]) ELSE EvalNode(c.s, vi[3]))
         : c \in {EvalNode(s, vi[1])} })

EvalConv2B(s, n) ==
  LET vi == value_inputs(n) IN
  IF Len(vi) = 0 THEN Fatal(s, "Conv2B needs value input")
  ELSE Only({
         (IF r.e # "ok" THEN r
          ELSE IF is_null(r.v) THEN Ok(r.s, MakeI32(0))
          ELSE Ok(r.s, MakeI32(IF r.v.v # 0 THEN 1 ELSE 0)))
         : r \in {EvalNode(s, vi[1])} })

EvalNoOp(s, n) ==
  LET vals == value_inputs(n) IN
  IF Len(vals) > 0 THEN EvalNode(s, vals[1]) ELSE Ok(s, MakeI32(0))

\* while a Phi of the updating Region is being computed it is marked active
EvalPhi(s, n) ==
  LET in_update_for_this_region ==
        s.in_phi_update_ /\ s.updating_region_ # 0
        /\ region_input(n) = s.updating_region_
      region == region_input(n)
      first_value == IF Len(phi_values(n)) = 0
                     THEN Fatal(s, "Phi node has no value inputs")
                     ELSE EvalNode(s, phi_values(n)[1])
  IN
  IF ~in_update_for_this_region /\ n \in s.phi_eval_stack_
  THEN Fatal(s, "Cyclic Phi evaluation detected")
  ELSE IF ReadsOldPhiValue(s, n) THEN Ok(s, s.phi_old_values_[n])
  ELSE IF region = 0 \/ opcode(region) # "Region" THEN first_value
  ELSE IF region \notin DOMAIN s.region_predecessor_ THEN first_value
  ELSE LET active_pred == s.region_predecessor_[region]
           allow_self == in_update_for_this_region
           selected == SelectPhiInputNode(n, active_pred, allow_self)
           active == in_update_for_this_region /\ n = s.updating_phi_
       IN IF selected = 0 THEN Fatal(s, "Phi node: could not select input")
          ELSE IF ~allow_self /\ selected = n
          THEN Fatal(s, "Phi node: selected self reference outside update mode")
          ELSE IF active
          THEN Only({ (IF r.e = "crash" THEN r
                       ELSE [r EXCEPT !.s.phi_update_active_ = @ \ {n}])
                      : r \in {EvalNode([s EXCEPT !.phi_update_active_ = @ \cup {n}],
                                        selected)} })
          ELSE EvalNode(s, selected)

\* ----------------------------------------------------- memory evaluation
EvalAllocateArray(s, n) ==
  IF num_inputs(n) < 2 THEN Fatal(s, "AllocateArray needs length input")
  ELSE Only({
         (IF len_val.e # "ok" THEN len_val
          ELSE IF ~is_i32(len_val.v) THEN Fatal(len_val.s, "Array length must be i32")
          ELSE IF len_val.v.v < 0 THEN Trap(len_val.s, "Negative array length")
          ELSE LET a == AllocateArray(len_val.s.heap_, len_val.v.v)
               IN Ok([len_val.s EXCEPT !.heap_ = a.h], MakeRef(a.v)))
         : len_val \in {EvalNode(s, input(n, 1))} })

\* the search of LoadRange for its array input: the first input from 1 on that
\* evaluates to a reference; an evaluation that throws is skipped (catch (...))
LoadRangeProbe(s, n, i) ==
  IF i >= num_inputs(n) THEN [s |-> s, arr_node |-> 0, e |-> "ok"]
  ELSE LET inp == input(n, i) IN
       IF inp = 0 \/ opcode(inp) = "Parm" THEN LoadRangeProbe(s, n, i + 1)
       ELSE Only({
              (IF r.e = "crash" THEN [s |-> r.s, arr_node |-> 0, e |-> "crash"]
               ELSE IF r.e = "ok" /\ is_ref(r.v)
               THEN [s |-> r.s, arr_node |-> inp, e |-> "ok"]
               ELSE LoadRangeProbe(r.s, n, i + 1))
              : r \in {EvalNode(s, inp)} })

EvalLoadRange(s, n) ==
  Only({
    (LET arr_node == IF probe.arr_node # 0 THEN probe.arr_node
                     ELSE IF num_inputs(n) > 2 THEN input(n, 2) ELSE 0
     IN IF probe.e = "crash" THEN Crash(probe.s)
        ELSE IF arr_node = 0
        THEN Fatal(probe.s, "LoadRange: could not find array input")
        ELSE Only({
               (IF arr_val.e # "ok" THEN arr_val
                ELSE IF ~is_ref(arr_val.v)
                THEN Fatal(arr_val.s, "LoadRange: array input is not a reference")
                ELSE LET len == ArrayLength(arr_val.s.heap_, arr_val.v.v)
                     IN IF ~len.ok THEN Fatal(arr_val.s, len.m)
                        ELSE Ok(arr_val.s, MakeI32(len.v)))
               : arr_val \in {EvalNode(probe.s, arr_node)} }))
    : probe \in {LoadRangeProbe(s, n, 1)} })

EvalRangeCheckValue(s, n) ==
  IF ~InRange(n, 2) THEN OutOfRange(s)
  ELSE IF input(n, 1) = 0 \/ input(n, 2) = 0
  THEN Fatal(s, "RangeCheck: missing length or index input")
  ELSE Only({
         (IF length_val.e # "ok" THEN length_val
          ELSE Only({
                 (IF index_val.e # "ok" THEN index_val
                  ELSE IF ~is_i32(length_val.v) \/ ~is_i32(index_val.v)
                  THEN Fatal(index_val.s, "Value is not i32")
                  ELSE IF index_val.v.v < 0 \/ index_val.v.v >= length_val.v.v
                  THEN Fatal(index_val.s, "Array index out of bounds")
                  ELSE Ok(index_val.s, index_val.v))
                 : index_val \in {EvalNode(length_val.s, input(n, 2))} }))
         : length_val \in {EvalNode(s, input(n, 1))} })

\* first input from 1 on that is neither a hole nor a Parm, else input(1)
AddPInput(n) ==
  LET cands == {i \in 1..(num_inputs(n) - 1) :
                  input(n, i) # 0 /\ opcode(input(n, i)) # "Parm"}
  IN IF cands # {} THEN input(n, CHOOSE i \in cands : \A j \in cands : i <= j)
     ELSE IF num_inputs(n) > 1 THEN input(n, 1) ELSE 0

EvalAddP(s, n) ==
  IF AddPInput(n) # 0 THEN EvalNode(s, AddPInput(n)) ELSE Ok(s, MakeI32(0))

\* results of extract_index: [s, found, idx, e, m]
Found(s, idx) == [s |-> s, found |-> TRUE, idx |-> idx, e |-> "ok", m |-> ""]
NotFound(s) == [s |-> s, found |-> FALSE, idx |-> -1, e |-> "ok", m |-> ""]
Thrown(r) == [s |-> r.s, found |-> FALSE, idx |-> -1, e |-> r.e, m |-> r.m]

\* the closing step of extract_index: evaluate the node itself
extract_direct(s, node) ==
  Only({ (IF val.e # "ok" THEN Thrown(val)
          ELSE IF is_i32(val.v) THEN Found(val.s, val.v.v) ELSE NotFound(val.s))
         : val \in {EvalNode(s, node)} })

\* the shift case of extract_index: the ConvI2L operand, then the input itself
extract_shifted(s, node) ==
  LET val == input(node, 1) IN
  IF opcode(node) \in {"LShiftL", "LShiftI"} /\ num_inputs(node) >= 2
  THEN Only({ (IF viaConv.e # "ok" \/ viaConv.found THEN viaConv
               ELSE extract_direct(viaConv.s, val))
              : viaConv \in {IF val # 0 /\ opcode(val) = "ConvI2L"
                                /\ num_inputs(val) >= 2
                             THEN extract_direct(s, input(val, 1))
                             ELSE NotFound(s)} })
  ELSE NotFound(s)

\* the recursion has no guard of its own: it ends when the host stack does
\* (depth counts the frames of extract_index)
extract_index(s, node, depth) ==
  IF depth > HostStackLimit THEN Thrown(Crash(s))
  ELSE IF node = 0 THEN NotFound(s)
  ELSE Only({
         (IF shifted.e # "ok" \/ shifted.found THEN shifted
          ELSE Only({ (IF inner.e # "ok" \/ inner.found THEN inner
                       ELSE extract_direct(inner.s, node))
                      : inner \in {IF opcode(node) = "AddP"
                                   THEN extract_index_inputs(shifted.s, node, 1, depth)
                                   ELSE NotFound(shifted.s)} }))
         : shifted \in {extract_shifted(s, node)} })

extract_index_inputs(s, node, i, depth) ==
  IF i >= num_inputs(node) THEN NotFound(s)
  ELSE Only({ (IF r.e # "ok" \/ r.found THEN r
               ELSE extract_index_inputs(r.s, node, i + 1, depth))
              : r \in {extract_index(s, input(node, i), depth + 1)} })

LoadIsArray(n) ==
  IF has_prop(n, "array") THEN prop(n, "array")
  ELSE IF has_prop(n, "dump_spec") THEN SpecHasBracket(prop(n, "dump_spec"))
  ELSE input(n, 2) # 0 /\ opcode(input(n, 2)) = "AddP"

\* heap_.ReadArray inside a Load: a heap error is a std::runtime_error
ReadElement(s, arr, index) ==
  LET elem == ReadArray(s.heap_, arr, index)
  IN IF elem.ok THEN Ok(s, elem.v) ELSE Fatal(s, elem.m)

\* an array Load whose address is an AddP: base from input(1), index extracted
LoadViaAddP(s, addp) ==
  IF num_inputs(addp) < 3
  THEN Fatal(s, "AddP for array access needs at least 3 inputs")
  ELSE Only({
         (IF actual_base.e # "ok" THEN actual_base
          ELSE IF ~is_ref(actual_base.v)
          THEN Fatal(actual_base.s, "AddP base must be array reference")
          ELSE Only({
                 (IF x.e = "crash" THEN Crash(x.s)
                  ELSE IF x.e = "trap" THEN Trap(x.s, x.m)
                  ELSE IF x.e = "fatal" THEN Fatal(x.s, x.m)
                  ELSE IF ~x.found
                  THEN Fatal(x.s, "Could not extract i32 array index from AddP address computation")
                  ELSE ReadElement(x.s, actual_base.v.v, x.idx))
                 : x \in {extract_index(actual_base.s, addp, 0)} }))
         : actual_base \in {EvalNode(s, input(addp, 1))} })

\* the Load proper, once the memory chain has been replayed
LoadFrom(s, n) ==
  Only({
    (IF base_val.e # "ok" THEN base_val
     ELSE IF ~is_ref(base_val.v) THEN Fatal(base_val.s, "Load base must be a reference")
     ELSE IF LoadIsArray(n)
     THEN IF num_inputs(n) >= 4
          THEN Only({
                 (IF idx_val.e # "ok" THEN idx_val
                  ELSE IF ~is_i32(idx_val.v)
                  THEN Fatal(idx_val.s, "Array index must be i32")
                  ELSE ReadElement(idx_val.s, base_val.v.v, idx_val.v.v))
                 : idx_val \in {EvalNode(base_val.s, input(n, 3))} })
          ELSE IF opcode(input(n, 2)) = "AddP"
          THEN LoadViaAddP(base_val.s, input(n, 2))
          ELSE Fatal(base_val.s, "Array load structure not recognized")
     ELSE IF ~has_prop(n, "field") THEN Fatal(base_val.s, "Load needs field property")
     ELSE Ok(base_val.s,
             ReadField(base_val.s.heap_, base_val.v.v, prop(n, "field")).v))
    : base_val \in {EvalNode(s, input(n, 2))} })

EvalLoad(s, n) ==
  IF num_inputs(n) < 3 THEN Fatal(s, "Load needs at least control, memory, and base")
  ELSE Only({
         (IF chain.e # "ok" THEN chain
          ELSE LoadFrom([chain.s EXCEPT
                           !.log_replays = @ \cup {<<n, chain.s.log_walk>>}], n))
         : chain \in {ProcessMemoryChain(
                        [s EXCEPT !.memory_chain_visited_ = {}, !.log_walk = <<>>,
                                  !.log_loads = @ \cup {n}],
                        input(n, 1))} })

IsStore(n) == opcode(n) \in StoreOps

\* a Store met on the walk is applied at once; only then does the walk go on
\* to the Store's own memory input
ProcessMemoryChain(s, mem) ==
  IF mem = 0 THEN Ok(s, NoValue)
  ELSE IF mem \in s.memory_chain_visited_ THEN Ok(s, NoValue)
  ELSE LET s1 == [s EXCEPT !.memory_chain_visited_ = @ \cup {mem}] IN
       Only({ (IF st.e # "ok" THEN st
               ELSE IF num_inputs(mem) >= 2
               THEN ProcessMemoryChain(st.s, input(mem, 1))
               ELSE st)
              : st \in {IF IsStore(mem) THEN EvalStore(s1, mem)
                        ELSE Ok(s1, NoValue)} })

\* the heap write that ends EvalStore, noted in the replay history
ApplyStore(s, n, w, slot) ==
  IF ~w.ok THEN Fatal(s, w.m)
  ELSE Ok([s EXCEPT !.heap_ = w.h, !.log_walk = Append(@, n),
                    !.log_written = @ \cup {n},
                    !.log_stored = @ \cup {<<n, slot>>}], NoValue)

\* base, (index,) value are evaluated in this order, then the heap is written
EvalStore(s, n) ==
  IF num_inputs(n) < 4 THEN Fatal(s, "Store needs at least control, memory, base, value")
  ELSE Only({
    (IF base_val.e # "ok" THEN base_val
     ELSE IF ~is_ref(base_val.v) THEN Fatal(base_val.s, "Store base must be a reference")
     ELSE IF has_prop(n, "array") /\ prop(n, "array")
     THEN IF num_inputs(n) < 5 THEN Fatal(base_val.s, "Array store needs index and value")
          ELSE Only({
                 (IF idx_val.e # "ok" THEN idx_val
                  ELSE IF ~is_i32(idx_val.v)
                  THEN Fatal(idx_val.s, "Array index must be i32")
                  ELSE Only({
                         (IF value.e # "ok" THEN value
                          ELSE ApplyStore(value.s, n,
                                 WriteArray(value.s.heap_, base_val.v.v,
                                            idx_val.v.v, value.v),
                                 <<base_val.v.v, idx_val.v.v, value.v>>))
                         : value \in {EvalNode(idx_val.s, input(n, 4))} }))
                 : idx_val \in {EvalNode(base_val.s, input(n, 3))} })
     ELSE IF ~has_prop(n, "field") THEN Fatal(base_val.s, "Store needs field property")
     ELSE Only({
            (IF value.e # "ok" THEN value
             ELSE ApplyStore(value.s, n,
                    WriteField(value.s.heap_, base_val.v.v, prop(n, "field"),
                               value.v),
                    <<base_val.v.v, prop(n, "field"), value.v>>))
            : value \in {EvalNode(base_val.s, input(n, 3))} }))
    : base_val \in {EvalNode(s, input(n, 2))} })

\* ------------------------------------------------------- UpdateRegionPhis
Range(f) == {f[x] : x \in DOMAIN f}

SeedOps == {"ConI", "ConL", "ConP", "Parm"}

\* the back-edge prune: only constants and parameters stay cached
PruneToSeeds(cache) == FnRestrict(cache, {n \in DOMAIN cache : opcode(n) \in SeedOps})

\* prune_cache_keep_seeds keeping every entry
prune_cache_keep_all(cache) == cache

prune_cache_keep_seeds(cache) ==
  FnRestrict(cache, {n \in DOMAIN cache : opcode(n) \in SeedOps \cup {"Phi"}})

\* the loop over the Region's data Phis; new_phi_values collects the results
RECURSIVE EvalPhis(_, _, _, _)
EvalPhis(s, phis, i, new_phi_values) ==
  IF i > Len(phis) THEN [s |-> s, new |-> new_phi_values, e |-> "ok", m |-> ""]
  ELSE Only({
         (IF r.e # "ok" THEN [s |-> r.s, new |-> new_phi_values, e |-> r.e, m |-> r.m]
          ELSE EvalPhis(r.s, phis, i + 1, FnPut(new_phi_values, phis[i], r.v)))
         : r \in {EvalPhi([s EXCEPT !.updating_phi_ = phis[i]], phis[i])} })

\* install the new Phi seeds in the cache
InstallPhis(cache, new_phi_values) ==
  [n \in DOMAIN cache \cup DOMAIN new_phi_values |->
     IF n \in DOMAIN new_phi_values THEN new_phi_values[n] ELSE cache[n]]

\* the members as a back-edge update sets them before its Phi loop
EnterPhiUpdate(s, region, phis) ==
  [s EXCEPT !.phi_old_values_ = FnRestrict(s.value_cache_, Range(phis)),
            !.in_phi_update_ = TRUE,
            !.updating_region_ = region,
            !.updating_phi_ = 0,
            !.value_cache_ = PruneToSeeds(@),
            !.log_phi_reads = {},
            !.log_updates =
               FnPut(@, region, (IF region \in DOMAIN @ THEN @[region] ELSE 0) + 1)]

UpdateRegionPhis(s, region, is_back_edge) ==
  IF region = 0 \/ opcode(region) # "Region" THEN Ok(s, NoValue)
  ELSE
  Only({
    (IF loop.e # "ok" THEN [s |-> loop.s, v |-> NoValue, e |-> loop.e, m |-> loop.m]
     ELSE
     LET s2 == [loop.s EXCEPT
                  !.updating_phi_ = 0,
                  !.value_cache_ = prune_cache_keep_seeds(InstallPhis(@, loop.new)),
                  !.log_phi_cur = InstallPhis(@, loop.new)]
     IN Ok(IF is_back_edge
           THEN [s2 EXCEPT !.in_phi_update_ = FALSE, !.updating_region_ = 0,
                           !.phi_old_values_ = EmptyFn, !.phi_update_active_ = {}]
           ELSE s2,
           NoValue))
    : loop \in {EvalPhis(IF is_back_edge
                         THEN EnterPhiUpdate(s, region, DataPhisOf(region)) ELSE s,
                         DataPhisOf(region), 1, EmptyFn)} })

\* ------------------------------------------------------------ StepControl
\* results of StepControl: [s, next, e, m]
Stepped(s, next) == [s |-> s, next |-> next, e |-> "ok", m |-> ""]
StepThrew(r) == [s |-> r.s, next |-> 0, e |-> r.e, m |-> r.m]

\* FindControlSuccessor as a step: it also records the Region predecessor
Successor(s, ctrl) ==
  Only({ Stepped([s EXCEPT !.region_predecessor_ = f.rp], f.node)
         : f \in {FindControlSuccessor(ctrl, s.control_successors_,
                                       s.region_predecessor_)} })

\* the first IfTrue / IfFalse successor that matches the branch taken
BranchSuccessor(s, ctrl, taken) ==
  LET succs == IF ctrl \in DOMAIN s.control_successors_
               THEN s.control_successors_[ctrl] ELSE <<>>
      want == IF taken THEN "IfTrue" ELSE "IfFalse"
      hits == {i \in 1..Len(succs) : succs[i] # 0 /\ opcode(succs[i]) = want}
  IN IF hits = {} THEN 0 ELSE succs[CHOOSE i \in hits : \A j \in hits : i <= j]

\* StepBranch taking the branch the condition does not select
StepBranch_Inverted(s, ctrl, what) ==
  LET vi == value_inputs(ctrl) IN
  IF Len(vi) = 0 THEN StepThrew(Fatal(s, what \o " node needs condition value input"))
  ELSE Only({
         (IF cond.e # "ok" THEN StepThrew(cond)
          ELSE LET s1 == [cond.s EXCEPT !.log_cond = cond.v] IN
          IF ~is_bool(cond.v) /\ ~is_i32(cond.v)
          THEN StepThrew(Fatal(s1, what \o " condition must be boolean or int"))
          ELSE LET next == BranchSuccessor(s1, ctrl, cond.v.v = 0) IN
               IF next = 0
               THEN StepThrew(Fatal(s1,
                                    what \o " node has no IfTrue/IfFalse successors"))
               ELSE Stepped(s1, next))
         : cond \in {EvalNode(s, vi[1])} })

StepBranch(s, ctrl, what) ==
  LET vi == value_inputs(ctrl) IN
  IF Len(vi) = 0 THEN StepThrew(Fatal(s, what \o " node needs condition value input"))
  ELSE Only({
         (IF cond.e # "ok" THEN StepThrew(cond)
          ELSE LET s1 == [cond.s EXCEPT !.log_cond = cond.v] IN
          IF ~is_bool(cond.v) /\ ~is_i32(cond.v)
          THEN StepThrew(Fatal(s1, what \o " condition must be boolean or int"))
          ELSE LET next == BranchSuccessor(s1, ctrl, cond.v.v # 0) IN
               IF next = 0
               THEN StepThrew(Fatal(s1,
                                    what \o " node has no IfTrue/IfFalse successors"))
               ELSE Stepped(s1, next))
         : cond \in {EvalNode(s, vi[1])} })

\* the Phi update of a Region step, then the step to the Region's successor
UpdateThenStep(s, ctrl, is_back_edge) ==
  Only({ (IF u.e # "ok" THEN StepThrew(u) ELSE Successor(u.s, ctrl))
         : u \in {UpdateRegionPhis(s, ctrl, is_back_edge)} })

\* StepRegion with the budget test off by one (> for >=)
StepRegion_OffByOne(s, ctrl) ==
  IF DataPhisOf(ctrl) = <<>> THEN Successor(s, ctrl)
  ELSE IF ctrl \notin DOMAIN s.loop_iterations_
  THEN UpdateThenStep([s EXCEPT !.loop_iterations_ = FnPut(@, ctrl, 0)], ctrl, FALSE)
  ELSE LET iter_count == s.loop_iterations_[ctrl] IN
       IF iter_count > kMaxLoopIterations
       THEN StepThrew(Fatal(s, LoopExceeded(ctrl)))
       ELSE UpdateThenStep([s EXCEPT !.loop_iterations_[ctrl] = iter_count + 1],
                           ctrl, TRUE)

StepRegion(s, ctrl) ==
  IF DataPhisOf(ctrl) = <<>> THEN Successor(s, ctrl)
  ELSE IF ctrl \notin DOMAIN s.loop_iterations_
  THEN UpdateThenStep([s EXCEPT !.loop_iterations_ = FnPut(@, ctrl, 0)], ctrl, FALSE)
  ELSE LET iter_count == s.loop_iterations_[ctrl] IN
       IF iter_count >= kMaxLoopIterations
       THEN StepThrew(Fatal(s, LoopExceeded(ctrl)))
       ELSE UpdateThenStep([s EXCEPT !.loop_iterations_[ctrl] = iter_count + 1],
                           ctrl, TRUE)

\* StepControl of an interpreter that performs, on stepping a control node,
\* the first Store that node controls
StepControl_Stores(s, ctrl) ==
  LET op == opcode(ctrl)
      sts == {n \in NodeIds : IsStore(n) /\ num_inputs(n) > 0 /\ input(n, 0) = ctrl}
  IN Only({
       (IF w.e # "ok" THEN StepThrew(w)
        ELSE CASE op \in {"Start", "Goto", "IfTrue", "IfFalse", "Parm", "SafePoint",
                          "Proj", "CallStaticJava"} -> Successor(w.s, ctrl)
               [] op \in {"If", "ParsePredicate"} -> StepBranch(w.s, ctrl, "If")
               [] op = "RangeCheck" -> StepBranch(w.s, ctrl, "RangeCheck")
               [] op = "Region" -> StepRegion(w.s, ctrl)
               [] op = "Halt" ->
                    StepThrew(Fatal(w.s, "Reached Halt control node (likely uncommon trap)"))
               [] OTHER -> StepThrew(Fatal(w.s, "Unexpected control opcode in StepControl")))
       : w \in {IF sts = {} THEN Ok(s, NoValue)
                ELSE EvalStore(s, CHOOSE n \in sts : \A m \in sts : n <= m)} })

StepControl(s, ctrl) ==
  LET op == opcode(ctrl) IN
  CASE op \in {"Start", "Goto", "IfTrue", "IfFalse", "Parm", "SafePoint", "Proj",
               "CallStaticJava"} -> Successor(s, ctrl)
    [] op \in {"If", "ParsePredicate"} -> StepBranch(s, ctrl, "If")
    [] op = "RangeCheck" -> StepBranch(s, ctrl, "RangeCheck")
    [] op = "Region" -> StepRegion(s, ctrl)
    [] op = "Halt" -> StepThrew(Fatal(s, "Reached Halt control node (likely uncommon trap)"))
    [] OTHER -> StepThrew(Fatal(s, "Unexpected control opcode in StepControl"))

\* ------------------------------------------------------------- Interpreter
\* the members of a freshly constructed Interpreter; the log_ fields are
\* history kept for stating properties and are never read by the program
Interpreter ==
  [control_successors_ |-> EmptyFn,
   value_cache_ |-> EmptyFn,
   eval_depth_ |-> 0,
   eval_active_ |-> {},
   region_predecessor_ |-> EmptyFn,
   loop_iterations_ |-> EmptyFn,
   heap_ |-> ConcreteHeap,
   in_phi_update_ |-> FALSE,
   updating_region_ |-> 0,
   phi_old_values_ |-> EmptyFn,
   updating_phi_ |-> 0,
   phi_update_active_ |-> {},
   phi_eval_stack_ |-> {},
   memory_chain_visited_ |-> {},
   log_fatal |-> FALSE,       \* a fatal error was raised in this Execute
   log_zero_div |-> FALSE,    \* a zero divisor was evaluated in this Execute
   log_cond |-> NoValue,      \* the condition the latest branch step evaluated
   log_walk |-> <<>>,         \* Stores applied by the memory walk under way
   log_replays |-> {},        \* <<Load, Stores its walk applied, in order>>
   log_loads |-> {},          \* the Loads whose evaluation was begun in this Execute
   log_written |-> {},        \* the Stores that wrote the heap in this Execute
   log_stored |-> {},         \* <<Store, <<base, field or index, value>>>> written
   log_phi_reads |-> {},      \* reads in the latest update: <<Phi under update, Phi read, value>>
   log_phi_cur |-> EmptyFn,   \* the value each Phi was last given by a Region step
   log_updates |-> EmptyFn]   \* back-edge updates started per Region

\* Graph::GetParameterNodes
GetParameterNodes == SelectSeq([i \in NodeIds |-> i], LAMBDA n : opcode(n) = "Parm")

\* the data parameters ExecuteWithHeap keeps of GetParameterNodes
IsDataParm(p) ==
  \/ ~has_prop(p, "type")
  \/ /\ prop(p, "type") \notin {"control", "memory", "return_address", "rawptr:", "abIO"}
     /\ prop(p, "type") \in DataTypeStrings

\* the sort key of a Parm without an index property: no node of these graphs
\* has a dump_spec naming a parameter
get_index(n) == 999999

\* the comparator of the sort of the data parameters
ParmLess(a, b) ==
  IF has_prop(a, "index") /\ has_prop(b, "index")
  THEN prop(a, "index") < prop(b, "index")
  ELSE get_index(a) < get_index(b)

\* the data parameters in the order the sort leaves them in
SortedParams ==
  LET ps == {p \in Range(GetParameterNodes) : IsDataParm(p)} IN
  CHOOSE seq \in [1..Cardinality(ps) -> ps] :
    /\ Range(seq) = ps
    /\ \A i, j \in DOMAIN seq : i < j => ~ParmLess(seq[j], seq[i])

\* results of EvalParm: [v, ok]
EvalParm(n, args) ==
  IF has_prop(n, "index")
  THEN IF prop(n, "index") < 0 \/ prop(n, "index") >= Len(args)
       THEN [v |-> NoValue, ok |-> FALSE]
       ELSE [v |-> args[prop(n, "index") + 1], ok |-> TRUE]
  ELSE IF has_prop(n, "type")
          /\ prop(n, "type") \in {"control", "memory", "return_address"}
       THEN [v |-> MakeI32(0), ok |-> TRUE]
       ELSE [v |-> NoValue, ok |-> FALSE]

NoOutcome == [kind |-> "none"]
Return(val, heap) == [kind |-> "Return", has_value |-> TRUE, return_value |-> val,
                      heap |-> heap]
ReturnVoid(heap) == [kind |-> "Return", has_value |-> FALSE, heap |-> heap]
Throw(msg, heap) == [kind |-> "Throw", exception_kind |-> msg, heap |-> heap]

\* what an exception leaving Execute looks like to the caller
Raised(r) == [kind |-> IF r.e = "trap" THEN "EvalException" ELSE "runtime_error",
              m |-> r.m]
NoError == [kind |-> "none", m |-> ""]

\* ------------------------------------------------------------------ inputs
ArgValues == {MakeI32(x) : x \in -1..MaxArg}
\* what a caller may pass for a parameter of reference type: references the
\* initial heap may or may not hold, null, and a value of the wrong kind
RefArgValues == {MakeRef(1), MakeRef(2), MakeNull, MakeI32(0)}
\* the arguments a caller passes at position i (from 0), by the declared type
\* the ends of the i32 range and the values next to 0
EdgeArgValues == {MakeI32(x) : x \in {INT_MIN, -1, 0, 1, 2, INT_MAX}}
\* bit patterns to shift, and counts on both sides of 32 and of 64
ShiftedValues == {MakeI32(x) : x \in {INT_MIN, -1, 1, 1073741829, INT_MAX}}
ShiftCounts == {MakeI32(c) : c \in {-1, 0, 1, 31, 32, 33, 63, 64, 65}}
ArgsAt(i) ==
  IF graph \in ArithGraphs THEN EdgeArgValues
  ELSE IF graph \in ShiftGraphs THEN (IF i = 0 THEN ShiftedValues ELSE ShiftCounts)
  ELSE IF \E n \in NodeIds : /\ opcode(n) = "Parm" /\ has_prop(n, "index")
                         /\ prop(n, "index") = i
                         /\ has_prop(n, "type") /\ prop(n, "type") = "ptr:"
  THEN RefArgValues ELSE ArgValues
NumParms == Cardinality({n \in NodeIds : opcode(n) = "Parm" /\ has_prop(n, "index")})
InputVectors ==
  IF NumParms = 0 THEN {<<>>}
  ELSE IF NumParms = 1 THEN {<<a>> : a \in ArgsAt(0)} \cup {<<>>}
  ELSE {<<a, b>> : a \in ArgsAt(0), b \in ArgsAt(1)} \cup {<<>>}

\* a caller-provided heap holding one array {5, 6} at reference 1
HeapWithArray ==
  [next_ref_ |-> 2, fields_ |-> EmptyFn,
   arrays_ |-> (1 :> <<MakeI32(5), MakeI32(6)>>),
   array_lengths_ |-> (1 :> 2)]
InitialHeaps == {ConcreteHeap, HeapWithArray}

\* -------------------------------------------------------------- actions
\* what the history keeps of the members as they were before the step
Before(s) == [region_predecessor_ |-> s.region_predecessor_,
              loop_iterations_ |-> s.loop_iterations_,
              log_phi_cur |-> s.log_phi_cur,
              log_updates |-> s.log_updates]
Hist(op, ctrl, pre, r) ==
  [op |-> op, ctrl |-> ctrl, pre |-> Before(pre), e |-> r.e, m |-> r.m]

\* ExecuteWithHeap up to the control loop: reset, successors, parameters
\* heap_ bound to the caller's object instead of copied from it
CallerHeapAfter_Shared(caller, own) == own

\* heap_ = initial_heap copies the argument, taken by const reference: what
\* the call does to heap_ (own) leaves the caller's object as it was
CallerHeapAfter(caller, own) == caller

ResetForExecute(s, heap) ==
  [Interpreter EXCEPT !.eval_depth_ = s.eval_depth_,
                      !.heap_ = heap,
                      !.control_successors_ = BuildControlSuccessors]

BindParms(s, args) ==
  LET params == SortedParams
      bad == {i \in DOMAIN params : ~EvalParm(params[i], args).ok}
      done == {params[i] : i \in {j \in DOMAIN params : \A b \in bad : j < b}}
      bound == [s EXCEPT !.value_cache_ = [p \in done |-> EvalParm(p, args).v]]
  IN IF bad # {} THEN Fatal(bound, "Parm index out of range")
     ELSE Ok(bound, NoValue)

Begin ==
  /\ pc \in {"idle", "returned", "raised"}
  /\ executes < MaxExecutes
  /\ \E args \in InputVectors, heap \in InitialHeaps :
       \E b \in {BindParms(ResetForExecute(interp, heap), args)} :
       /\ inputs' = args
       /\ initial_heap' = heap
       /\ interp' = b.s
       /\ pc' = IF b.e = "ok" THEN "running" ELSE "raised"
       /\ error' = IF b.e = "ok" THEN NoError ELSE Raised(b)
       /\ hist' = Hist("begin", 0, interp, b)
  /\ current_control' = start
  /\ step_count' = 0
  /\ outcome' = NoOutcome
  /\ executes' = executes + 1
  /\ UNCHANGED <<graph, client_vars, worker_vars>>

\* the control loop ends on a null control node or on a Return
AtLoopExit(ctrl) == IF ctrl = 0 THEN TRUE ELSE opcode(ctrl) = "Return"

\* one turn of the control loop: the budget test, then StepControl
Step ==
  /\ pc = "running"
  /\ ~AtLoopExit(current_control)
  /\ step_count' = step_count + 1
  /\ IF step_count > kMaxControlSteps
     THEN /\ pc' = "raised"
          /\ error' = [kind |-> "runtime_error",
                       m |-> StepsExceeded(current_control)]
          /\ hist' = [op |-> "budget", ctrl |-> current_control, pre |-> Before(interp),
                      e |-> "fatal", m |-> error'.m]
          /\ UNCHANGED <<interp, current_control>>
     ELSE \E r \in {StepControl(interp, current_control)} :
          /\ interp' = r.s
          /\ current_control' = IF r.e = "ok" THEN r.next ELSE current_control
          /\ pc' = CASE r.e = "ok" -> "running"
                     [] r.e = "crash" -> "crashed"
                     [] OTHER -> "raised"
          /\ error' = IF r.e \in {"trap", "fatal"} THEN Raised(r) ELSE NoError
          /\ hist' = Hist("step", current_control, interp, r)
  /\ initial_heap' = CallerHeapAfter(initial_heap, interp'.heap_)
  /\ UNCHANGED <<graph, outcome, executes, inputs, client_vars, worker_vars>>

\* the Return's value node taken as the first input from 1 on that is neither a
\* hole nor a Parm
ReturnValueNode_First(ret) ==
  LET cands == {i \in 1..(num_inputs(ret) - 1) :
                  input(ret, i) # 0 /\ opcode(input(ret, i)) # "Parm"}
  IN IF cands = {} THEN 0
     ELSE input(ret, CHOOSE i \in cands : \A j \in cands : i <= j)

\* the Return's value node: the last input from 1 on that is neither a hole
\* nor a Parm (0 if there is none)
ReturnValueNode(ret) ==
  LET cands == {i \in 1..(num_inputs(ret) - 1) :
                  input(ret, i) # 0 /\ opcode(input(ret, i)) # "Parm"}
  IN IF cands = {} THEN 0
     ELSE input(ret, CHOOSE i \in cands : \A j \in cands : j <= i)

\* Conclude without the catch of EvalException
Conclude_NoCatch(r) ==
  CASE r.e = "ok" -> [pc |-> "returned", outcome |-> Return(r.v, r.s.heap_),
                      error |-> NoError]
    [] r.e \in {"trap", "fatal"} ->
         [pc |-> "raised", outcome |-> NoOutcome, error |-> Raised(r)]
    [] OTHER -> [pc |-> "crashed", outcome |-> NoOutcome, error |-> NoError]

\* how ExecuteWithHeap ends once the value node was evaluated with result r:
\* only an EvalException is caught and turned into a Throw outcome
Conclude(r) ==
  CASE r.e = "ok" -> [pc |-> "returned", outcome |-> Return(r.v, r.s.heap_),
                      error |-> NoError]
    [] r.e = "trap" -> [pc |-> "returned", outcome |-> Throw(r.m, r.s.heap_),
                        error |-> NoError]
    [] r.e = "fatal" -> [pc |-> "raised", outcome |-> NoOutcome, error |-> Raised(r)]
    [] OTHER -> [pc |-> "crashed", outcome |-> NoOutcome, error |-> NoError]

\* ExecuteWithHeap as one function of the Interpreter it is called on: what a
\* call with these arguments ends with, [pc, outcome, error]
ExecuteRaised(msg) ==
  [pc |-> "raised", outcome |-> NoOutcome,
   error |-> [kind |-> "runtime_error", m |-> msg]]

ReturnResult(s, ret) ==
  IF ReturnValueNode(ret) = 0
  THEN [pc |-> "returned", outcome |-> ReturnVoid(s.heap_), error |-> NoError]
  ELSE Conclude(EvalNode(s, ReturnValueNode(ret)))

\* the control loop ended on a null control node, and Execute returned anyway
NoReturnResult_Void(s) ==
  [pc |-> "returned", outcome |-> ReturnVoid(s.heap_), error |-> NoError]

\* the control loop ended on a null control node
NoReturnResult(s) ==
  ExecuteRaised("Control flow terminated without reaching Return")

RECURSIVE ControlLoop(_, _, _)
ControlLoop(s, ctrl, count) ==
  IF ctrl = 0 THEN NoReturnResult(s)
  ELSE IF opcode(ctrl) = "Return" THEN ReturnResult(s, ctrl)
  ELSE IF count > kMaxControlSteps
  THEN ExecuteRaised(StepsExceeded(ctrl))
  ELSE Only({ (CASE r.e = "ok" -> ControlLoop(r.s, r.next, count + 1)
                 [] r.e = "crash" ->
                      [pc |-> "crashed", outcome |-> NoOutcome, error |-> NoError]
                 [] OTHER ->
                      [pc |-> "raised", outcome |-> NoOutcome, error |-> Raised(r)])
              : r \in {StepControl(s, ctrl)} })

ExecuteWithHeap(s, args, heap) ==
  Only({ (IF b.e # "ok"
          THEN [pc |-> "raised", outcome |-> NoOutcome, error |-> Raised(b)]
          ELSE ControlLoop(b.s, start, 0))
         : b \in {BindParms(ResetForExecute(s, heap), args)} })

\* the end of ExecuteWithHeap, after the control loop
Finish ==
  /\ pc = "running"
  /\ AtLoopExit(current_control)
  /\ IF current_control = 0
     THEN /\ pc' = NoReturnResult(interp).pc
          /\ error' = NoReturnResult(interp).error
          /\ outcome' = NoReturnResult(interp).outcome
          /\ hist' = [op |-> "noreturn", ctrl |-> 0, pre |-> Before(interp),
                      e |-> "fatal", m |-> error'.m]
          /\ UNCHANGED interp
     ELSE IF ReturnValueNode(current_control) = 0
     THEN /\ pc' = "returned"
          /\ error' = NoError
          /\ outcome' = ReturnVoid(interp.heap_)
          /\ hist' = [op |-> "finish", ctrl |-> current_control, pre |-> Before(interp),
                      e |-> "ok", m |-> ""]
          /\ UNCHANGED interp
     ELSE \E r \in {EvalNode(interp, ReturnValueNode(current_control))} :
          LET c == Conclude(r)
          IN /\ interp' = r.s
             /\ pc' = c.pc
             /\ error' = c.error
             /\ outcome' = c.outcome
             /\ hist' = Hist("finish", current_control, interp, r)
  /\ initial_heap' = CallerHeapAfter(initial_heap, interp'.heap_)
  /\ UNCHANGED <<graph, current_control, step_count, executes, inputs,
                 client_vars, worker_vars>>

InitInterpOn(gs) ==
  /\ graph \in gs
  /\ interp = Interpreter
  /\ pc = "idle"
  /\ current_control = 0
  /\ step_count = 0
  /\ outcome = NoOutcome
  /\ error = NoError
  /\ executes = 0
  /\ inputs = <<>>
  /\ initial_heap = ConcreteHeap
  /\ hist = [op |-> "init", ctrl |-> 0, pre |-> Before(Interpreter), e |-> "ok",
             m |-> ""]

\* no call made yet on the heap under test
NoCall ==
  [op |-> "none", ref |-> 0, index |-> 0, field |-> "", val |-> MakeI32(0),
   length |-> 0, pre |-> ConcreteHeap, r |-> HeapOk(ConcreteHeap, MakeI32(0))]

\* floor: the highest Ref the heap returned before the modelled calls began
NoLog(h) ==
  [floor |-> h.next_ref_ - 1, returned |-> <<>>, wfields |-> EmptyFn,
   warrays |-> EmptyFn]

InitClient(heaps) ==
  /\ client_heap \in heaps
  /\ client_call = NoCall
  /\ client_log = NoLog(client_heap)

InitInterp(graphs) == InitInterpOn({Graphs[i] : i \in graphs})

Workers == {1, 2}
IdleWorker == [pc |-> "idle", loaded |-> 0, left |-> 0]

InitWorkers ==
  /\ eval_count = 0
  /\ workers = [w \in Workers |-> IdleWorker]
  /\ touched = {}

InitOn(graphs) ==
  InitInterp(graphs) /\ InitClient({ConcreteHeap}) /\ InitWorkers

Init == InitOn(MainGraphs)
InitBudget == InitOn(BudgetGraphs)
InitDeep == InitOn(DeepGraphs)

Next == Begin \/ Step \/ Finish

Spec == Init /\ [][Next]_vars
SpecBudget == InitBudget /\ [][Next]_vars
SpecDeep == InitDeep /\ [][Next]_vars
\* Execute on the graphs of one arithmetic node, over the edge values
InitArith == InitInterpOn(ArithGraphs) /\ InitClient({ConcreteHeap}) /\ InitWorkers
SpecArith == InitArith /\ [][Next]_vars
\* Execute on the graphs whose Start has two control successors
InitSucc == InitInterpOn(SuccGraphs) /\ InitClient({ConcreteHeap}) /\ InitWorkers
SpecSucc == InitSucc /\ [][Next]_vars
\* Execute on the graphs with merges and loops and on those whose Start has
\* two control successors
RegionGraphs == {G_Diamond, G_PhiLoop, G_Nested} \cup SuccGraphs
InitRegions == InitInterpOn(RegionGraphs) /\ InitClient({ConcreteHeap}) /\ InitWorkers
SpecRegions == InitRegions /\ [][Next]_vars
\* Execute on the graphs of one Phi over a two-way merge
InitPhi == InitInterpOn(PhiGraphs) /\ InitClient({ConcreteHeap}) /\ InitWorkers
SpecPhi == InitPhi /\ [][Next]_vars
\* Execute on the graph that uses one allocation in every round of a loop
InitAlloc == InitInterpOn({G_AllocLoop}) /\ InitClient({ConcreteHeap}) /\ InitWorkers
SpecAlloc == InitAlloc /\ [][Next]_vars
\* Execute on the graphs whose Loads replay Stores, one of them on both sides
\* of a merge
ReplayGraphs == {G_StoreTwice, G_TwoStores, G_TwoStoresArray, G_RefParm, G_DeadStore}
InitReplay == InitInterpOn(ReplayGraphs) /\ InitClient({ConcreteHeap}) /\ InitWorkers
SpecReplay == InitReplay /\ [][Next]_vars
InitShift == InitInterpOn(ShiftGraphs) /\ InitClient({ConcreteHeap}) /\ InitWorkers
SpecShift == InitShift /\ [][Next]_vars
\* Execute on the graphs that return one Bool node
InitBool == InitInterpOn(BoolGraphs) /\ InitClient({ConcreteHeap}) /\ InitWorkers
SpecBool == InitBool /\ [][Next]_vars

\* ------------------------------------------- the heap used on its own
\* a client (the unit tests, the driver) calls the public methods of one
\* ConcreteHeap in any order
MaxAllocs == 2
Fields == {"x"}
HeapValues == {MakeI32(7), MakeRef(1)}
Lengths == {-1, 0, 2}
Indices == {-1, 0, 1, 2}

\* the heap after INT_MAX - 1 calls of AllocateObject
AgedHeap == [ConcreteHeap EXCEPT !.next_ref_ = INT_MAX]
ClientHeaps == {ConcreteHeap, AgedHeap}

RECURSIVE SeqRange(_)
SeqRange(q) == IF q = <<>> THEN {} ELSE {Head(q)} \cup SeqRange(Tail(q))

\* the Refs a client passes: null's id and every Ref it was given
ProbeRefs == {0} \cup SeqRange(client_log.returned)
\* the Refs whose fields a client writes: the objects it allocated
ObjectRefs == SeqRange(client_log.returned) \ DOMAIN client_heap.arrays_

Called(op, ref, index, field, val, length, r) ==
  [op |-> op, ref |-> ref, index |-> index, field |-> field, val |-> val,
   length |-> length, pre |-> client_heap, r |-> r]

ClientAllocateObject ==
  /\ Len(client_log.returned) < MaxAllocs
  /\ \E r \in {AllocateObject(client_heap)} :
       /\ client_heap' = r.h
       /\ client_call' = Called("AllocateObject", 0, 0, "", MakeI32(0), 0, r)
       /\ client_log' = [client_log EXCEPT !.returned = Append(@, r.v)]
  /\ UNCHANGED <<exec_vars, worker_vars>>

ClientAllocateArray ==
  /\ \E length \in Lengths :
       /\ length < 0 \/ Len(client_log.returned) < MaxAllocs
       /\ \E r \in {AllocateArray(client_heap, length)} :
            /\ client_heap' = r.h
            /\ client_call' =
                 Called("AllocateArray", 0, 0, "", MakeI32(0), length, r)
            /\ client_log' =
                 IF r.ok
                 THEN [client_log EXCEPT
                         !.returned = Append(@, r.v),
                         !.warrays = FnRestrict(@, {k \in DOMAIN @ : k[1] # r.v})]
                 ELSE client_log
  /\ UNCHANGED <<exec_vars, worker_vars>>

ClientReadField ==
  /\ \E ref \in ProbeRefs, field \in Fields :
       \E r \in {ReadField(client_heap, ref, field)} :
         /\ client_heap' = r.h
         /\ client_call' = Called("ReadField", ref, 0, field, MakeI32(0), 0, r)
  /\ UNCHANGED <<client_log, exec_vars, worker_vars>>

ClientWriteField ==
  /\ \E ref \in ObjectRefs, field \in Fields, val \in HeapValues :
       \E r \in {WriteField(client_heap, ref, field, val)} :
         /\ client_heap' = r.h
         /\ client_call' = Called("WriteField", ref, 0, field, val, 0, r)
         /\ client_log' =
              [client_log EXCEPT !.wfields = FnPut(@, <<ref, field>>, val)]
  /\ UNCHANGED <<exec_vars, worker_vars>>

ClientReadArray ==
  /\ \E ref \in ProbeRefs, index \in Indices :
       \E r \in {ReadArray(client_heap, ref, index)} :
         /\ client_heap' = r.h
         /\ client_call' = Called("ReadArray", ref, index, "", MakeI32(0), 0, r)
  /\ UNCHANGED <<client_log, exec_vars, worker_vars>>

ClientWriteArray ==
  /\ \E ref \in ProbeRefs, index \in Indices, val \in HeapValues :
       \E r \in {WriteArray(client_heap, ref, index, val)} :
         /\ client_heap' = r.h
         /\ client_call' = Called("WriteArray", ref, index, "", val, 0, r)
         /\ client_log' =
              IF r.ok
              THEN [client_log EXCEPT !.warrays = FnPut(@, <<ref, index>>, val)]
              ELSE client_log
  /\ UNCHANGED <<exec_vars, worker_vars>>

ClientArrayLength ==
  /\ \E ref \in ProbeRefs :
       \E r \in {ArrayLength(client_heap, ref)} :
         /\ client_heap' = r.h
         /\ client_call' = Called("ArrayLength", ref, 0, "", MakeI32(0), 0, r)
  /\ UNCHANGED <<client_log, exec_vars, worker_vars>>

InitHeap == InitInterp({1}) /\ InitClient(ClientHeaps) /\ InitWorkers

NextHeap ==
  \/ ClientAllocateObject
  \/ ClientAllocateArray
  \/ ClientReadField
  \/ ClientWriteField
  \/ ClientReadArray
  \/ ClientWriteArray
  \/ ClientArrayLength

SpecHeap == InitHeap /\ [][NextHeap]_vars

\* ------------------------------------- Execute on two threads at once
\* each worker owns an Interpreter and a heap and runs one Execute on the
\* common graph; of that call the steps are the entries into EvalNode, whose
\* first statement counts the call in a function-static int
MaxEvalCalls == 2

\* a static has owner 0, a member of worker w's Interpreter has owner w
Touch(name, owner, w) == touched \cup {<<name, owner, w>>}

\* ExecuteWithHeap starts: Logger::Info tests the static level_, then the
\* members of this Interpreter are cleared
WorkerBegin ==
  /\ \E w \in Workers, calls \in 1..MaxEvalCalls :
       /\ workers[w].pc = "idle"
       /\ workers' = [workers EXCEPT ![w] = [pc |-> "entry", loaded |-> 0,
                                             left |-> calls]]
       /\ touched' = Touch("Logger::level_", 0, w) \cup {<<"value_cache_", w, w>>,
                                                         <<"heap_", w, w>>}
  /\ UNCHANGED <<eval_count, exec_vars, client_vars>>

\* ++eval_count is a load ...
WorkerLoad ==
  /\ \E w \in Workers :
       /\ workers[w].pc = "entry"
       /\ workers' = [workers EXCEPT ![w].pc = "loaded", ![w].loaded = eval_count]
       /\ touched' = Touch("eval_count", 0, w)
  /\ UNCHANGED <<eval_count, exec_vars, client_vars>>

\* ... and a store of the loaded value plus one, with no lock and no atomic
WorkerStore ==
  /\ \E w \in Workers :
       /\ workers[w].pc = "loaded"
       /\ eval_count' = Inc32(workers[w].loaded)
       /\ workers' = [workers EXCEPT ![w].pc = "body"]
       /\ touched' = Touch("eval_count", 0, w)
  /\ UNCHANGED <<exec_vars, client_vars>>

\* the rest of EvalNode works on the members of the worker's Interpreter
WorkerBody ==
  /\ \E w \in Workers :
       /\ workers[w].pc = "body"
       /\ workers' = [workers EXCEPT
                        ![w].pc = IF workers[w].left > 1 THEN "entry" ELSE "done",
                        ![w].left = @ - 1]
       /\ touched' = touched \cup {<<"value_cache_", w, w>>, <<"eval_depth_", w, w>>,
                                    <<"eval_active_", w, w>>}
  /\ UNCHANGED <<eval_count, exec_vars, client_vars>>

NextWorkers == WorkerBegin \/ WorkerLoad \/ WorkerStore \/ WorkerBody

SpecWorkers == InitOn({1}) /\ [][NextWorkers]_vars

\* ================================================================ claims
\* the step just taken was a StepControl call on a Region that has data Phis
RegionStepped ==
  /\ hist.op = "step"
  /\ opcode(hist.ctrl) = "Region"
  /\ DataPhisOf(hist.ctrl) # <<>>
\* the step ran a back-edge update of the Region's Phis
UpdateRan == RegionStepped /\ interp.log_updates # hist.pre.log_updates

\* the Phi input positionally aligned with the predecessor the Region was
\* entered from
AlignedInput(phi) ==
  LET R == region_input(phi)
      P == hist.pre.region_predecessor_[R]
      i == CHOOSE k \in 0..(num_inputs(R) - 1) : input(R, k) = P
  IN input(phi, i + 1)

\* the value of a data node when every Phi is read at the value it held
\* before the step (the value a Region step last gave it)
RECURSIVE ValueBefore(_)
ValueBefore(n) ==
  CASE opcode(n) = "Phi" -> hist.pre.log_phi_cur[n]
    [] opcode(n) = "AddI" ->
         MakeI32(Add32(ValueBefore(input(n, 0)).v, ValueBefore(input(n, 1)).v))
    [] opcode(n) = "DivI" ->
         MakeI32(TruncDiv(ValueBefore(input(n, 0)).v, ValueBefore(input(n, 1)).v))
    [] opcode(n) = "ConI" -> MakeI32(prop(n, "value"))
    [] opcode(n) = "Parm" -> inputs[prop(n, "index") + 1]

\* C1: right after StepControl on a Region R entered from predecessor P, the
\* cached value of every data Phi of R equals the value of its input aligned
\* with P, that input being evaluated with the Phis at their pre-update values.
C1_PhiHoldsAlignedInput ==
  (RegionStepped /\ hist.e = "ok") =>
     \A k \in 1..Len(DataPhisOf(hist.ctrl)) :
        LET phi == DataPhisOf(hist.ctrl)[k] IN
        /\ phi \in DOMAIN interp.value_cache_
        /\ interp.value_cache_[phi] = ValueBefore(AlignedInput(phi))

\* C2: during a back-edge update of Region R every read of a data Phi of R
\* yields the value that Phi held before the update, never a new value.
C2_SimultaneousUpdate ==
  UpdateRan =>
     \A rd \in interp.log_phi_reads :
        /\ rd[2] \in DOMAIN hist.pre.log_phi_cur
        /\ rd[3] = hist.pre.log_phi_cur[rd[2]]

\* the memory predecessors of a node: what its memory input chain leads to
RECURSIVE MemReach(_, _)
MemReach(n, seen) ==
  IF n = 0 \/ n \in seen \/ num_inputs(n) < 2 THEN seen
  ELSE MemReach(input(n, 1), seen \cup {n})
MemPreds(n) == IF num_inputs(n) < 2 THEN {} ELSE MemReach(input(n, 1), {}) \cup
                 (IF input(n, 1) = 0 THEN {} ELSE {input(n, 1)})

\* a Load whose own memory input is a Store to the very slot it reads
NearestStore(ld) ==
  LET st == input(ld, 1) IN
  IF /\ st # 0 /\ IsStore(st) /\ input(st, 2) = input(ld, 2)
     /\ Nd(st).p = Nd(ld).p
     /\ (has_prop(ld, "array") => input(st, 3) = input(ld, 3))
  THEN st ELSE 0
StoredValueNode(st) == IF has_prop(st, "array") THEN input(st, 4) ELSE input(st, 3)

\* C3: the Stores on a Load's memory chain are applied deepest first, and a
\* Load whose nearest Store writes the slot it reads returns that Store's value.
C3_ReplayDeepestFirst ==
  /\ \A rp \in interp.log_replays :
        \A i, j \in 1..Len(rp[2]) : i < j => rp[2][i] \in MemPreds(rp[2][j])
  /\ \A ld \in DOMAIN interp.value_cache_ :
        (opcode(ld) \in LoadOps /\ NearestStore(ld) # 0
         /\ StoredValueNode(NearestStore(ld)) \in DOMAIN interp.value_cache_)
        => interp.value_cache_[ld] =
             interp.value_cache_[StoredValueNode(NearestStore(ld))]

\* the Execute under way has ended: it returned an Outcome or raised
Ended == pc \in {"returned", "raised"}

TrapMessages == {"Division by zero", "Modulo by zero", "Negative array length"}

\* the value node of the Return that Finish evaluated
ReturnedNode == ReturnValueNode(hist.ctrl)
\* the argument bound to a Parm that is the k-th value input of the Return's
\* value node (k counted from 1)
OperandIsParm(k) ==
  /\ Len(value_inputs(ReturnedNode)) >= k
  /\ opcode(value_inputs(ReturnedNode)[k]) = "Parm"
OperandArg(k) == inputs[prop(value_inputs(ReturnedNode)[k], "index") + 1].v

\* the trap the Return's value node must raise, "" if none is due
DueTrap ==
  IF ReturnedNode = 0 THEN ""
  ELSE IF opcode(ReturnedNode) \in {"DivI", "DivL"} /\ OperandIsParm(2)
          /\ OperandArg(2) = 0 THEN "Division by zero"
  ELSE IF opcode(ReturnedNode) \in {"ModI", "ModL"} /\ OperandIsParm(2)
          /\ OperandArg(2) = 0 THEN "Modulo by zero"
  ELSE IF opcode(ReturnedNode) = "AllocateArray"
          /\ opcode(input(ReturnedNode, 1)) = "Parm"
          /\ inputs[prop(input(ReturnedNode, 1), "index") + 1].v < 0
       THEN "Negative array length"
  ELSE ""

\* C4: when evaluating the reached Return's value node raises an evaluation
\* trap, Execute returns a Throw outcome carrying the trap's message and the
\* heap; a zero divisor or a negative array length at the Return is such a trap.
C4_TrapAtReturnIsThrow ==
  (hist.op = "finish") =>
     /\ (DueTrap # "" => hist.e = "trap" /\ hist.m = DueTrap)
     /\ (hist.e = "trap" =>
           /\ hist.m \in TrapMessages
           /\ pc = "returned"
           /\ outcome = Throw(hist.m, interp.heap_)
           /\ error = NoError)

C4_Witness ==
  /\ hist.op = "finish" /\ hist.e = "trap"
  /\ opcode(ReturnedNode) = "DivI"
  /\ outcome.kind = "Throw" /\ outcome.exception_kind = "Division by zero"
  /\ outcome.heap = HeapWithArray

\* C5: a zero divisor evaluated anywhere in Execute ends it with a Throw
\* outcome ("Division by zero" or "Modulo by zero"), never with an exception.
C5_ZeroDivisorIsThrow ==
  (Ended /\ interp.log_zero_div) =>
     /\ pc = "returned"
     /\ outcome.kind = "Throw"
     /\ outcome.exception_kind \in {"Division by zero", "Modulo by zero"}

\* C6: an array Load at index -1 or at index = length, or a Load or Store on
\* a non-reference base, met while the return value is computed, ends Execute
\* with a Throw outcome carrying that message, not with a fatal error.
C6_HeapViolationIsThrow ==
  (hist.op = "finish" /\ hist.e # "ok"
   /\ hist.m \in {"Array index out of bounds", "Load base must be a reference",
                  "Store base must be a reference"}) =>
     /\ pc = "returned"
     /\ outcome.kind = "Throw"
     /\ outcome.exception_kind = hist.m

\* C7: a fatal interpreter error raised while evaluating any node leaves
\* Execute as an error: Execute never goes on to return an Outcome.
C7_FatalPropagates ==
  (Ended /\ interp.log_fatal) => (pc = "raised" /\ error.kind = "runtime_error")

\* the step about to be taken is a StepControl call on a Region with data Phis
AtPhiRegion ==
  /\ pc = "running"
  /\ ~AtLoopExit(current_control)
  /\ step_count <= kMaxControlSteps
  /\ opcode(current_control) = "Region"
  /\ DataPhisOf(current_control) # <<>>

UpdatesStarted(s, R) == IF R \in DOMAIN s.log_updates THEN s.log_updates[R] ELSE 0

C8_Step ==
  /\ (executes' = executes) =>
        \A R \in DOMAIN interp.loop_iterations_ :
           /\ R \in DOMAIN interp'.loop_iterations_
           /\ interp'.loop_iterations_[R] >= interp.loop_iterations_[R]
  /\ AtPhiRegion =>
        LET R == current_control IN
        IF R \notin DOMAIN interp.loop_iterations_
        THEN /\ interp'.loop_iterations_[R] = 0
             /\ UpdatesStarted(interp', R) = UpdatesStarted(interp, R)
        ELSE IF interp.loop_iterations_[R] < kMaxLoopIterations
        THEN /\ interp'.loop_iterations_[R] = interp.loop_iterations_[R] + 1
             /\ UpdatesStarted(interp', R) = UpdatesStarted(interp, R) + 1
        ELSE /\ pc' = "raised"
             /\ error' = [kind |-> "runtime_error",
                          m |-> LoopExceeded(R)]
             /\ interp'.loop_iterations_ = interp.loop_iterations_
             /\ interp'.value_cache_ = interp.value_cache_
             /\ interp'.log_updates = interp.log_updates
  /\ \A R \in DOMAIN interp'.log_updates :
        interp'.log_updates[R] <= kMaxLoopIterations

\* C8: for a Region with data Phis loop_iterations_ is 0 after the first
\* visit, grows by exactly 1 on each later visit and never shrinks during an
\* Execute; at most kMaxLoopIterations back-edge updates run on it, and the
\* visit after that fails with 'Loop exceeded maximum iterations', Phis untouched.
C8_LoopBudget == [][C8_Step]_vars

C8_Witness ==
  /\ pc = "raised"
  /\ error.m = LoopExceeded(hist.ctrl)
  /\ hist.op = "step"
  /\ interp.loop_iterations_[hist.ctrl] = kMaxLoopIterations
  /\ UpdatesStarted(interp, hist.ctrl) = kMaxLoopIterations

\* C9: one Execute makes at most kMaxControlSteps StepControl calls, and a
\* run that needs more ends with a fatal error, never with an Outcome.
C9_StepBudget ==
  /\ hist.op = "step" => step_count <= kMaxControlSteps
  /\ pc = "returned" => step_count <= kMaxControlSteps

\* C10: every Execute call terminates by returning an Outcome or by raising
\* an error: no evaluation recurses without end, so none outruns the host stack.
C10_Terminates == pc \in {"idle", "running", "returned", "raised"}

\* what the Execute that has ended gave its caller
Result == [pc |-> pc, outcome |-> outcome, error |-> error]

\* C11: an Execute ends as the same call ends on a freshly constructed
\* Interpreter, whatever Execute calls were made on this Interpreter before:
\* equal graph, inputs and initial heap give equal Outcomes or equal errors.
C11_HistoryIndependent ==
  Ended => Result = ExecuteWithHeap(Interpreter, inputs, initial_heap)

\* C12: once Execute has bound its parameters, the i-th data Parm in the order
\* of the parameter indices is cached with the i-th argument; and the binding
\* does not fail when there is an argument for each data Parm.
C12_ParmsBoundInOrder ==
  /\ (hist.op = "begin" /\ Len(SortedParams) <= Len(inputs)) => hist.e = "ok"
  /\ (hist.op = "begin" /\ hist.e = "ok") =>
       \A i \in DOMAIN SortedParams : i <= Len(inputs) =>
         /\ SortedParams[i] \in DOMAIN interp.value_cache_
         /\ interp.value_cache_[SortedParams[i]] = inputs[i]

\* the latest step was a branch step (If, ParsePredicate, RangeCheck) that
\* got a value for its condition
BranchOps == {"If", "ParsePredicate", "RangeCheck"}
BranchWhat == IF opcode(hist.ctrl) = "RangeCheck" THEN "RangeCheck" ELSE "If"
BranchStepped ==
  /\ hist.op = "step"
  /\ opcode(hist.ctrl) \in BranchOps
  /\ \/ hist.e = "ok"
     \/ hist.m \in {BranchWhat \o " condition must be boolean or int",
                    BranchWhat \o " node has no IfTrue/IfFalse successors"}

\* the IfTrue / IfFalse projections of a branch node
Projections(ctrl, op) ==
  {n \in NodeIds : opcode(n) = op /\ num_inputs(n) > 0 /\ input(n, 0) = ctrl}

\* the step went to a projection of the wanted kind, or failed for want of one
WentTo(op) ==
  IF Projections(hist.ctrl, op) = {}
  THEN pc = "raised" /\ outcome = NoOutcome /\ error.kind = "runtime_error"
  ELSE pc = "running" /\ current_control \in Projections(hist.ctrl, op)

\* C13 as stated: a branch step whose condition is Bool(true) or a non-zero
\* integer (int or long) goes to the IfTrue successor, any other condition to
\* the IfFalse successor; without that successor Execute fails fatally.
C13_AnyInteger ==
  BranchStepped =>
    WentTo(IF \/ is_bool(interp.log_cond) /\ interp.log_cond.v = 1
              \/ is_i32(interp.log_cond) /\ interp.log_cond.v # 0
              \/ is_i64(interp.log_cond) /\ interp.log_cond.v # 0
           THEN "IfTrue" ELSE "IfFalse")

\* C13 (amended): a branch step whose condition is Bool(true) or a non-zero
\* I32 goes to the IfTrue successor, one whose condition is Bool(false) or
\* I32(0) to the IfFalse successor, and without that successor Execute fails
\* fatally with no Outcome; a condition of any other kind is a fatal error.
C13_BranchOnBoolOrInt ==
  BranchStepped =>
    IF is_bool(interp.log_cond) \/ is_i32(interp.log_cond)
    THEN WentTo(IF interp.log_cond.v # 0 THEN "IfTrue" ELSE "IfFalse")
    ELSE /\ pc = "raised" /\ outcome = NoOutcome
         /\ error = [kind |-> "runtime_error",
                     m |-> BranchWhat \o " condition must be boolean or int"]

\* a branch on a non-zero I32 went to its IfTrue successor
C13_Witness ==
  /\ BranchStepped /\ hist.e = "ok"
  /\ is_i32(interp.log_cond) /\ interp.log_cond.v # 0
  /\ opcode(current_control) = "IfTrue"

\* the nodes recorded as control consumers of ctrl
ControlConsumers(ctrl) == {n \in NodeIds : ConsumesControlOf(n, ctrl)}

LastInput(ret) == input(ret, num_inputs(ret) - 1)

\* C15: an Execute that reached a Return whose value input is a data Parm
\* returns a Return outcome with a value, the argument bound to that Parm.
C15_ReturnsParm ==
  (/\ pc = "returned"
   /\ num_inputs(current_control) > 1
   /\ LastInput(current_control) # 0
   /\ opcode(LastInput(current_control)) = "Parm"
   /\ IsDataParm(LastInput(current_control))) =>
    /\ outcome.kind = "Return"
    /\ outcome.has_value
    /\ outcome.return_value = EvalParm(LastInput(current_control), inputs).v

\* the inputs 1..n-1 of a Return that are neither holes nor Parms
ValueCandidates(ret) ==
  {i \in 1..(num_inputs(ret) - 1) :
     input(ret, i) # 0 /\ opcode(input(ret, i)) # "Parm"}

ZeroArray(length) == [i \in 1..length |-> MakeI32(0)]

\* C17: within an Execute the heap is written by a Store only in the
\* evaluation of a Load whose memory chain (input 1, followed through input 1)
\* holds that Store; while no Store has been applied, fields and array
\* elements are those of the initial heap and new arrays are zero-filled, and
\* the heap of a returned Outcome is that heap.
C17_StoresOnlyByLoads ==
  /\ \A st \in interp.log_written :
        \E ld \in interp.log_loads : opcode(ld) \in LoadOps /\ st \in MemPreds(ld)
  /\ interp.log_written = {} =>
        /\ interp.heap_.fields_ = initial_heap.fields_
        /\ \A r \in DOMAIN interp.heap_.arrays_ :
              interp.heap_.arrays_[r] =
                IF r \in DOMAIN initial_heap.arrays_ THEN initial_heap.arrays_[r]
                ELSE ZeroArray(Len(interp.heap_.arrays_[r]))
  /\ (pc = "returned") => outcome.heap = interp.heap_

\* an Execute returned with one Store applied by a Load and a second Store,
\* on no Load's chain, that never wrote its element
C17_Witness ==
  /\ pc = "returned" /\ outcome.kind = "Return"
  /\ interp.log_written # {}
  /\ \E st \in NodeIds :
        /\ IsStore(st) /\ st \notin interp.log_written
        /\ inputs # <<>> /\ inputs[1] # MakeI32(0)
        /\ st = input(current_control, 1)
        /\ \A r \in DOMAIN outcome.heap.arrays_ :
              r \notin DOMAIN initial_heap.arrays_ =>
                outcome.heap.arrays_[r] = <<inputs[1], MakeI32(0)>>

\* C18: no value evaluation is in progress between two steps of an Execute
\* (eval_active_ is empty again, however the evaluation ended), a request for
\* a node under evaluation ends the Execute with the fatal 'Cyclic value
\* evaluation detected' error, and no evaluation of a cyclic value subgraph
\* recurses until the process dies.
C18_CycleGuard ==
  /\ pc # "crashed"
  /\ interp.eval_active_ = {}
  /\ hist.m = "Cyclic value evaluation detected" =>
       /\ pc = "raised" /\ outcome = NoOutcome
       /\ error = [kind |-> "runtime_error", m |-> hist.m]

\* C19: while an Execute is under way and once it has returned, a further
\* evaluation of a node that was evaluated before (its value is cached: no
\* Region update has pruned it since) returns the cached value and changes
\* nothing: no allocation, no Store replay, no other member; a further
\* evaluation of a Parm that was not bound returns I32(0) again.
C19_SecondEvalFromCache ==
  pc \in {"running", "returned"} =>
    /\ \A n \in DOMAIN interp.value_cache_ :
          EvalNode(interp, n) = Ok(interp, interp.value_cache_[n])
    /\ \A n \in NodeIds \ DOMAIN interp.value_cache_ :
          opcode(n) = "Parm" => EvalNode(interp, n) = Ok(interp, MakeI32(0))

\* an Execute returned with a Load, whose walk replayed Stores, and an
\* allocation in the cache
C19_Witness ==
  /\ pc = "returned"
  /\ interp.log_written # {}
  /\ \E ld, a \in DOMAIN interp.value_cache_ :
        /\ opcode(ld) \in LoadOps /\ ld \in interp.log_loads
        /\ opcode(a) \in {"Allocate", "AllocateArray"}

\* C20: after a Region step that ran a back-edge update to its end, the value
\* cache holds entries of ConI, ConL, ConP, Parm and Phi nodes only, every data
\* Phi of the Region is cached with the value the update computed for it, and
\* the update state is cleared.
C20_UpdateCompleted ==
  (UpdateRan /\ hist.e = "ok") =>
    /\ \A n \in DOMAIN interp.value_cache_ :
          opcode(n) \in {"ConI", "ConL", "ConP", "Parm", "Phi"}
    /\ \A k \in 1..Len(DataPhisOf(hist.ctrl)) :
          /\ DataPhisOf(hist.ctrl)[k] \in DOMAIN interp.value_cache_
          /\ DataPhisOf(hist.ctrl)[k] \in DOMAIN interp.log_phi_cur
          /\ interp.value_cache_[DataPhisOf(hist.ctrl)[k]] =
               interp.log_phi_cur[DataPhisOf(hist.ctrl)[k]]
    /\ interp.in_phi_update_ = FALSE
    /\ interp.updating_region_ = 0
    /\ interp.updating_phi_ = 0
    /\ interp.phi_old_values_ = EmptyFn
    /\ interp.phi_update_active_ = {}

\* a back-edge update ran to its end and gave a Phi a value other than the
\* one it had before
C20_Witness ==
  /\ UpdateRan /\ hist.e = "ok"
  /\ \E phi \in DOMAIN hist.pre.log_phi_cur :
        /\ region_input(phi) = hist.ctrl
        /\ interp.value_cache_[phi] # hist.pre.log_phi_cur[phi]

\* the Refs that appear in a value, and in a heap as keys or stored values
RefsOfValue(v) == IF is_ref(v) THEN {v.v} ELSE {}
RefsOfHeap(h) ==
  {k[1] : k \in DOMAIN h.fields_}
  \cup DOMAIN h.arrays_ \cup DOMAIN h.array_lengths_
  \cup UNION {RefsOfValue(h.fields_[k]) : k \in DOMAIN h.fields_}
  \cup UNION {UNION {RefsOfValue(h.arrays_[r][i]) : i \in 1..Len(h.arrays_[r])}
              : r \in DOMAIN h.arrays_}
ObservableRefs ==
  RefsOfHeap(outcome.heap)
  \cup (IF outcome.kind = "Return" /\ outcome.has_value
        THEN RefsOfValue(outcome.return_value) ELSE {})

CallerRefsAllocated ==
  /\ \A r \in RefsOfHeap(initial_heap) : r < initial_heap.next_ref_
  /\ \A i \in DOMAIN inputs :
        \A r \in RefsOfValue(inputs[i]) : r < initial_heap.next_ref_

C22_FreshRefs ==
  LET q == client_log.returned
  IN \A i \in DOMAIN q :
       /\ q[i] >= 1
       /\ q[i] > client_log.floor
       /\ \A j \in 1..(i - 1) : q[j] < q[i]

\* the heap before and after the last call on the heap under test
Pre == client_call.pre
Post == client_heap
IsArray(h, ref) == ref \in DOMAIN h.arrays_
InBounds(h, ref, index) == index >= 0 /\ index < Len(h.arrays_[ref])
LastWritten(w, key) == IF key \in DOMAIN w THEN w[key] ELSE MakeI32(0)
CallIs(ops) == client_call.op \in ops

\* C23: a read returns the value last written to the slot, or I32(0) if the
\* slot was never written; a write changes its own slot and nothing else
C23_ReadsLastWrite ==
  /\ CallIs({"ReadField"}) =>
       /\ client_call.r.ok
       /\ client_call.r.v =
            LastWritten(client_log.wfields, <<client_call.ref, client_call.field>>)
  /\ (CallIs({"ReadArray"}) /\ IsArray(Pre, client_call.ref)
        /\ InBounds(Pre, client_call.ref, client_call.index)) =>
       /\ client_call.r.ok
       /\ client_call.r.v =
            LastWritten(client_log.warrays, <<client_call.ref, client_call.index>>)
  /\ (CallIs({"WriteArray"}) /\ client_call.r.ok) =>
       /\ Post.next_ref_ = Pre.next_ref_
       /\ Post.fields_ = Pre.fields_
       /\ Post.array_lengths_ = Pre.array_lengths_
       /\ DOMAIN Post.arrays_ = DOMAIN Pre.arrays_
       /\ \A a \in DOMAIN Pre.arrays_ :
            /\ Len(Post.arrays_[a]) = Len(Pre.arrays_[a])
            /\ \A i \in 1..Len(Pre.arrays_[a]) :
                 Post.arrays_[a][i] =
                   IF a = client_call.ref /\ i = client_call.index + 1
                   THEN client_call.val ELSE Pre.arrays_[a][i]
  /\ CallIs({"WriteField"}) =>
       /\ client_call.r.ok
       /\ Post.next_ref_ = Pre.next_ref_
       /\ Post.arrays_ = Pre.arrays_
       /\ Post.array_lengths_ = Pre.array_lengths_
       /\ DOMAIN Post.fields_ =
            DOMAIN Pre.fields_ \cup {<<client_call.ref, client_call.field>>}
       /\ \A k \in DOMAIN Post.fields_ :
            Post.fields_[k] =
              IF k = <<client_call.ref, client_call.field>>
              THEN client_call.val ELSE Pre.fields_[k]

\* a field read back after it was written twice with different values
C23_Witness ==
  /\ CallIs({"ReadField"})
  /\ <<client_call.ref, client_call.field>> \in DOMAIN client_log.wfields
  /\ client_call.r.v = MakeRef(1)
  /\ \E a \in DOMAIN Pre.arrays_ : \E i \in 1..Len(Pre.arrays_[a]) :
       Pre.arrays_[a][i] = MakeI32(7)

\* C24: ReadArray and WriteArray fail with "Invalid array reference" on a Ref
\* that is no array and with "Array index out of bounds" on an index outside
\* [0, length); ArrayLength fails on a Ref that is no array; a failing call
\* leaves the heap as it was
C24_ArrayErrors ==
  /\ (CallIs({"ReadArray", "WriteArray"}) /\ ~IsArray(Pre, client_call.ref)) =>
       /\ ~client_call.r.ok
       /\ client_call.r.m = "Invalid array reference"
  /\ (CallIs({"ReadArray", "WriteArray"}) /\ IsArray(Pre, client_call.ref)
        /\ ~InBounds(Pre, client_call.ref, client_call.index)) =>
       /\ ~client_call.r.ok
       /\ client_call.r.m = "Array index out of bounds"
  /\ (CallIs({"ArrayLength"}) /\ ~IsArray(Pre, client_call.ref)) =>
       ~client_call.r.ok
  /\ ~client_call.r.ok => Post = Pre

\* ArrayLength asked of a Ref that AllocateObject returned
C24_Witness ==
  /\ CallIs({"ArrayLength"})
  /\ client_call.ref \in SeqRange(client_log.returned)
  /\ ~IsArray(Pre, client_call.ref)
  /\ ~client_call.r.ok
  /\ DOMAIN Pre.arrays_ # {}

\* C25: AllocateArray of a negative length fails with "Negative array length"
\* and leaves the heap as it was; of a length >= 0 it creates an array of
\* exactly that many elements, all I32(0)
C25_AllocateArray ==
  CallIs({"AllocateArray"}) =>
    IF client_call.length < 0
    THEN /\ ~client_call.r.ok
         /\ client_call.r.m = "Negative array length"
         /\ Post = Pre
    ELSE /\ client_call.r.ok
         /\ IsArray(Post, client_call.r.v)
         /\ Post.arrays_[client_call.r.v] =
              [i \in 1..client_call.length |-> MakeI32(0)]

\* a negative length asked of a heap that already holds an array
C25_Witness ==
  /\ CallIs({"AllocateArray"})
  /\ client_call.length < 0
  /\ ~client_call.r.ok
  /\ \E a \in DOMAIN Pre.arrays_ : Len(Pre.arrays_[a]) > 0

\* C26: the length map has the Refs of the array map, each with the number of
\* elements of its array, and WriteArray changes no length
C26_LengthsMirrorArrays ==
  /\ DOMAIN Post.array_lengths_ = DOMAIN Post.arrays_
  /\ \A a \in DOMAIN Post.arrays_ : Post.array_lengths_[a] = Len(Post.arrays_[a])
  /\ CallIs({"WriteArray"}) => Post.array_lengths_ = Pre.array_lengths_

\* a WriteArray that succeeded on the last element of an array
C26_Witness ==
  /\ CallIs({"WriteArray"})
  /\ client_call.r.ok
  /\ client_call.index + 1 = Len(Post.arrays_[client_call.ref])
  /\ Post.arrays_[client_call.ref][client_call.index + 1] = client_call.val

C28_NothingShared ==
  \A a \in touched, b \in touched :
    (a[1] = b[1] /\ a[2] = b[2]) => a[3] = b[3]

BudgetMessagesAt(node) ==
  {StepsExceeded(node), LoopExceeded(node), DepthExceeded(node)}
\* the nodes for which a budget error would read as the reported error reads
NodesReportedBy(m) == {n \in NodeIds : m \in BudgetMessagesAt(n)}

\* C29: an Execute that fails over the control-step, loop-iteration or
\* evaluation-depth budget reports an error that identifies the node that
\* went over it: the text fits that node and no other
C29_BudgetErrorNamesNode ==
  (pc = "raised" /\ NodesReportedBy(error.m) # {}) =>
    Cardinality(NodesReportedBy(error.m)) = 1

\* the Bool node of a G_Bool graph, its comparison result and its condition
IsBoolGraph == graph \in BoolGraphs
BoolNode == CHOOSE n \in NodeIds : opcode(n) = "Bool"
CmpResult == inputs[1].v
HasBit(m, k) == (m \div (2 ^ k)) % 2 = 1
NamedMask(text) ==
  CASE text \in {<<"[", "l", "t", "]">>} -> 1
    [] text \in {<<"[", "l", "e", "]">>} -> 3
    [] text \in {<<"[", "e", "q", "]">>} -> 2
    [] text \in {<<"[", "n", "e", "]">>, <<"n", "e">>} -> 5
    [] text \in {<<"[", "g", "e", "]">>} -> 6
    [] text \in {<<"[", "g", "t", "]">>} -> 4
StatedMask ==
  IF has_prop(BoolNode, "mask") THEN prop(BoolNode, "mask")
  ELSE NamedMask(prop(BoolNode, "dump_spec"))
Satisfies(c, m) ==
  \/ c < 0 /\ HasBit(m, 0)
  \/ c = 0 /\ HasBit(m, 1)
  \/ c > 0 /\ HasBit(m, 2)

\* C30: Bool over comparison result c and mask m is Bool(true) iff c < 0 and
\* m has bit 0, or c = 0 and m has bit 1, or c > 0 and m has bit 2; without a
\* mask property the mask is the one the dump_spec text names: lt 1, le 3,
\* eq 2, ne 5, ge 6, gt 4
C30_BoolOfMask ==
  (IsBoolGraph /\ pc = "returned" /\ Len(inputs) = 1
     /\ (has_prop(BoolNode, "mask") \/ has_prop(BoolNode, "dump_spec"))) =>
    /\ outcome.kind = "Return"
    /\ outcome.has_value
    /\ outcome.return_value = MakeBool(Satisfies(CmpResult, StatedMask))

\* ne read from the text, asked of a comparison result above 0
C30_Witness ==
  /\ IsBoolGraph /\ pc = "returned" /\ Len(inputs) = 1
  /\ ~has_prop(BoolNode, "mask")
  /\ has_prop(BoolNode, "dump_spec")
  /\ prop(BoolNode, "dump_spec") = <<"[", "n", "e", "]">>
  /\ CmpResult > 1
  /\ outcome.return_value = MakeBool(TRUE)

\* the arithmetic node of an ArithGraphs graph and its operands
ArithNode == CHOOSE n \in NodeIds : IsArithmetic(opcode(n))
ArithOp == opcode(ArithNode)
ArithDone == graph \in ArithGraphs /\ pc \notin {"idle", "running"}
               /\ Len(inputs) = NumParms
OpA == inputs[1].v
OpB == inputs[2].v
\* r is x reduced to the signed 32-bit range, x given as hi * 2^16 + lo
Half == 2 ^ 16
Lo(x) == x % Half
Hi(x) == x \div Half
SameHalves(r, hi, lo) == Lo(r) = lo % Half /\ Hi(r) % Half = (hi + (lo \div Half)) % Half
WrapsSum(r, a, b) == SameHalves(r, Hi(a) + Hi(b), Lo(a) + Lo(b))
WrapsDifference(r, a, b) == SameHalves(r, Hi(a) - Hi(b), Lo(a) - Lo(b))
\* the low 15 bits of a product are those of the product of the low 15 bits
WrapsProduct(r, a, b) ==
  /\ r % 32768 = ((a % 32768) * (b % 32768)) % 32768
  /\ (a \in -2..2 /\ b \in -2..2) => r = a * b
ArithReturned(ok(_)) ==
  /\ pc = "returned"
  /\ outcome.kind = "Return"
  /\ outcome.has_value
  /\ is_i32(outcome.return_value)
  /\ ok(outcome.return_value.v)
IsSum(r) == WrapsSum(r, OpA, OpB)
IsDifference(r) == WrapsDifference(r, OpA, OpB)
IsProduct(r) == WrapsProduct(r, OpA, OpB)
IsQuotient(r) ==
  IF OpA = INT_MIN /\ OpB = -1 THEN r = INT_MIN ELSE r = TruncDiv(OpA, OpB)
IsRemainder(r) ==
  IF OpA = INT_MIN /\ OpB = -1 THEN r = 0 ELSE r = TruncMod(OpA, OpB)
IsAbsolute(r) == IF OpA = INT_MIN THEN r = INT_MIN ELSE r = AbsInt(OpA)

\* C31: i32 arithmetic on i32 operands always yields a value, the
\* mathematical result wrapped to 32 bits (AbsI(INT_MIN) = INT_MIN,
\* DivI(INT_MIN, -1) = INT_MIN, ModI(INT_MIN, -1) = 0); only a zero divisor fails
C31_ArithmeticTotal ==
  ArithDone =>
    CASE ArithOp = "AddI" -> ArithReturned(IsSum)
      [] ArithOp = "SubI" -> ArithReturned(IsDifference)
      [] ArithOp = "MulI" -> ArithReturned(IsProduct)
      [] ArithOp = "DivI" -> OpB = 0 \/ ArithReturned(IsQuotient)
      [] ArithOp = "ModI" -> OpB = 0 \/ ArithReturned(IsRemainder)
      [] ArithOp = "AbsI" -> ArithReturned(IsAbsolute)

\* the shift node of a ShiftGraphs graph: bit i of a 32-bit x, of a 64-bit
\* value, and of the shifted operand at the width of the operation
ShiftDone == graph \in ShiftGraphs /\ pc \notin {"idle", "running"}
               /\ Len(inputs) = NumParms
ShiftOp == opcode(CHOOSE n \in NodeIds : opcode(n) \in ShiftOps)
ShiftWidth == IF ShiftOp \in {"LShiftI", "RShiftI", "URShiftI"} THEN 32 ELSE 64
Bit32(x, i) == IF i = 31 THEN x < 0 ELSE (x \div (2 ^ i)) % 2 = 1
Bit64(x, i) == IF i < 32 THEN Bit32(x.v, i) ELSE Bit32(x.hi, i - 32)
SrcBit(i) == IF i < 32 THEN Bit32(OpA, i) ELSE OpA < 0
ResultBit(i) ==
  IF ShiftWidth = 32 THEN Bit32(outcome.return_value.v, i)
  ELSE Bit64(outcome.return_value, i)
MaskedCount == OpB % ShiftWidth
ShiftedBit(i) ==
  CASE ShiftOp \in {"LShiftI", "LShiftL"} ->
         i >= MaskedCount /\ SrcBit(i - MaskedCount)
    [] ShiftOp \in {"RShiftI", "RShiftL"} ->
         SrcBit(IF i + MaskedCount < ShiftWidth THEN i + MaskedCount
                ELSE ShiftWidth - 1)
    [] ShiftOp \in {"URShiftI", "URShiftL"} ->
         i + MaskedCount < ShiftWidth /\ SrcBit(i + MaskedCount)

\* C32: a shift by c is the shift by c & 0x1F (I) or c & 0x3F (L), so a count
\* of 32 (64) shifts by 0; the unsigned right shifts fill with zeros
C32_ShiftCountsMasked ==
  ShiftDone =>
    /\ pc = "returned"
    /\ outcome.kind = "Return"
    /\ outcome.has_value
    /\ outcome.return_value.k = (IF ShiftWidth = 32 THEN "i32" ELSE "i64")
    /\ \A i \in 0..(ShiftWidth - 1) : ResultBit(i) = ShiftedBit(i)
C32_Witness ==
  /\ ShiftDone /\ ShiftOp = "URShiftL"
  /\ OpA = -1 /\ OpB = 65
  /\ outcome.return_value = MakeI64Of(INT_MAX, -1)

\* the control consumers of ctrl that FindControlSuccessor ranks, and the
\* position of an opcode in the chain Return < If/ParsePredicate/RangeCheck <
\* IfTrue/IfFalse < Goto < Region < SafePoint/CallStaticJava/Proj < Parm < Halt
CandidatesOf(ctrl) ==
  {n \in NodeIds : ConsumesControlOf(n, ctrl) /\ is_candidate(n)}
Rank(op) ==
  CHOOSE k \in 0..7 :
    op \in << {"Return"}, {"If", "ParsePredicate", "RangeCheck"},
               {"IfTrue", "IfFalse"}, {"Goto"}, {"Region"},
               {"SafePoint", "CallStaticJava", "Proj"}, {"Parm"}, {"Halt"} >>[k + 1]
First(n, key) == IF PropIsTrue(n, key) THEN 0 ELSE 1
PassesThrough(ctrl) ==
  opcode(ctrl) \in {"Start", "Goto", "IfTrue", "IfFalse", "Parm", "SafePoint",
                    "Proj", "CallStaticJava"}
\* a pass-through step took one of several candidates
ChoseAmongSeveral ==
  /\ pc = "running" /\ pc' = "running"
  /\ PassesThrough(current_control)
  /\ Cardinality(CandidatesOf(current_control)) > 1
MinimumBy(key(_, _)) ==
  /\ current_control' \in CandidatesOf(current_control)
  /\ \A d \in CandidatesOf(current_control) \ {current_control'} :
        LexLess(key(current_control, current_control'), key(current_control, d))
ReturnFirstHaltLast ==
  LET c == CandidatesOf(current_control) IN
  /\ (\E n \in c : opcode(n) = "Return") => opcode(current_control') = "Return"
  /\ opcode(current_control') = "Halt" => \A n \in c : opcode(n) = "Halt"
StatedKey(ctrl, n) ==
  <<Rank(opcode(n)), First(n, "is_block_start")>>
    \o delta(ctrl, n, "idx") \o delta(ctrl, n, "bci") \o <<n>>
CodeKey(ctrl, n) ==
  <<Rank(opcode(n)), First(n, "is_block_start"), First(n, "is_block_proj")>>
    \o delta(ctrl, n, "bci") \o delta(ctrl, n, "idx") \o <<n>>

\* C33 as stated: among several candidates the successor taken is the least by
\* opcode priority, then is_block_start, then forward idx distance, then
\* forward bci distance, then node id
C33_IdxBeforeBci ==
  [][ChoseAmongSeveral => MinimumBy(StatedKey) /\ ReturnFirstHaltLast]_vars

\* C33: among several candidates the successor taken is the least by opcode
\* priority, then is_block_start, then is_block_proj, then forward bci
\* distance, then forward idx distance, then node id; a Return is always
\* taken and a Halt only when every candidate is a Halt
C33_SuccessorIsMinimum ==
  [][ChoseAmongSeveral => MinimumBy(CodeKey) /\ ReturnFirstHaltLast]_vars
C33_Witness ==
  /\ graph = G_Succ("Return", [idx |-> 11, bci |-> 15],
                    "Return", [idx |-> 12, bci |-> 12])
  /\ pc = "running" /\ current_control = 6

\* region_predecessor_, and a step that moved the stepper into node R
RegionPredecessor == interp.region_predecessor_
MovedInto(R) == pc = "running" /\ pc' = "running" /\ current_control' = R
RecordedWell(R) ==
  /\ opcode(R) = "Region"
  /\ RegionPredecessor[R] # R
  /\ \E i \in 0..(num_inputs(R) - 1) : input(R, i) = RegionPredecessor[R]
KeepsEntry(R) ==
  /\ R \in DOMAIN RegionPredecessor' <=> R \in DOMAIN RegionPredecessor
  /\ R \in DOMAIN RegionPredecessor => RegionPredecessor'[R] = RegionPredecessor[R]

\* C34: every region_predecessor_ entry maps a Region to one of its non-self
\* inputs; a step into a Region records the node it came from, and within an
\* Execute every other step (also one that ranked the Region as a candidate
\* but took another successor) leaves the Region's entry as it was
C34_RegionPredecessor ==
  /\ [](\A R \in DOMAIN RegionPredecessor : RecordedWell(R))
  /\ [][executes' = executes =>
          \A R \in NodeIds :
            IF MovedInto(R) /\ opcode(R) = "Region"
            THEN /\ R \in DOMAIN RegionPredecessor'
                 /\ RegionPredecessor'[R] = current_control
            ELSE KeepsEntry(R)]_vars
C34_Witness ==
  /\ graph = G_Succ("Region", NP, "Region", [is_block_start |-> TRUE])
  /\ pc = "running" /\ current_control = 6
  /\ hist.op = "step" /\ hist.ctrl = 1
  /\ {5, 6} \subseteq CandidatesOf(1)
  /\ DOMAIN RegionPredecessor = {6} /\ RegionPredecessor[6] = 1

\* the Phi and the Region of a PhiGraphs graph
ThePhi == CHOOSE n \in NodeIds : opcode(n) = "Phi"
TheRegion == CHOOSE n \in NodeIds : opcode(n) = "Region"
PhiDone == graph \in PhiGraphs /\ pc \notin {"idle", "running"}
             /\ Len(inputs) = NumParms
Acceptable(v, allow_self) == v # 0 /\ (allow_self \/ v # ThePhi)
\* the Phi's value inputs are those after its Region input
NoAcceptableInput(allow_self) ==
  \A j \in 1..(num_inputs(ThePhi) - 1) : ~Acceptable(input(ThePhi, j), allow_self)
\* i is the position of pred among the Region's inputs
RegionIndex(pred, i) ==
  /\ i \in 0..(num_inputs(TheRegion) - 1)
  /\ pred \notin {0, TheRegion}
  /\ input(TheRegion, i) = pred
SelectedWell(pred, allow_self) ==
  LET sel == SelectPhiInputNode(ThePhi, pred, allow_self) IN
  /\ sel # 0 => /\ \E j \in 0..(num_inputs(ThePhi) - 1) : input(ThePhi, j) = sel
                /\ ~allow_self => sel # ThePhi
  /\ \A i \in 0..(num_inputs(TheRegion) - 1) :
        ( /\ RegionIndex(pred, i)
          /\ num_inputs(ThePhi) = num_inputs(TheRegion) + 1
          /\ Acceptable(input(ThePhi, i + 1), allow_self) )
        => sel = input(ThePhi, i + 1)
  /\ NoAcceptableInput(allow_self) => sel \in {0, TheRegion}

\* C35: the node selected for a Phi is one of its inputs, never a hole and,
\* unless allow_self, never the Phi; with one more Phi input than Region inputs
\* and an acceptable input i+1, the predecessor at Region index i selects
\* input i+1; an Execute returns the value of the selected input, and fails
\* with a fatal error when the Phi has no acceptable value input
C35_PhiSelection ==
  graph \in PhiGraphs =>
    /\ \A pred \in NodeIds, allow_self \in BOOLEAN : SelectedWell(pred, allow_self)
    /\ PhiDone /\ pc = "returned" =>
          LET sel == SelectPhiInputNode(ThePhi, RegionPredecessor[TheRegion], FALSE)
          IN /\ sel # 0 /\ opcode(sel) = "ConI"
             /\ outcome.return_value = MakeI32(prop(sel, "value"))
    /\ PhiDone /\ NoAcceptableInput(FALSE) =>
          pc = "raised" /\ error.kind = "runtime_error"
C35_Witness ==
  /\ graph = G_Phi(<<5, 6>>, <<7, 9, 10>>)
  /\ PhiDone /\ inputs = <<MakeI32(0)>>
  /\ RegionPredecessor[TheRegion] = 6
  /\ SelectPhiInputNode(ThePhi, 6, FALSE) = 10
  /\ outcome.return_value = MakeI32(20)

\* C36: while no Execute is running (before the first one, and after one that
\* returned or raised, the depth error included) eval_depth_ is 0 and
\* eval_active_ is empty
C36_GuardsReleased ==
  pc \in {"idle", "returned", "raised"} =>
    interp.eval_depth_ = 0 /\ interp.eval_active_ = {}

\* the allocating nodes of the graph
AllocNodes == {n \in NodeIds : opcode(n) \in {"Allocate", "AllocateArray"}}

\* C37: during an Execute the heap has handed out at most one reference for
\* each Allocate and AllocateArray node of the graph
C37_AllocatesOnce ==
  pc \in {"running", "returned", "raised"} =>
    interp.heap_.next_ref_ - initial_heap.next_ref_ <= Cardinality(AllocNodes)

\* this step ran a back-edge Phi update of Region R
BackEdgeUpdateOf(R) ==
  /\ pc = "running" /\ current_control = R /\ opcode(R) = "Region"
  /\ UpdatesStarted(interp', R) = UpdatesStarted(interp, R) + 1
\* the cached data Phis of Regions other than R
OtherCachedPhis(R) ==
  {phi \in DOMAIN interp.value_cache_ :
     IsDataPhiNode(phi) /\ region_input(phi) # R}

\* C38: a back-edge Phi update of Region R leaves the cached value of every
\* data Phi of another Region in the cache and unchanged
C38_OtherPhisKept ==
  [][\A R \in NodeIds :
       BackEdgeUpdateOf(R) =>
         \A phi \in OtherCachedPhis(R) :
           /\ phi \in DOMAIN interp'.value_cache_
           /\ interp'.value_cache_[phi] = interp.value_cache_[phi]]_vars

\* C39: all replays of a Store in one Execute write the same slot (base and
\* field or index) with the same value
C39_ReplaysAgree ==
  \A a \in interp.log_stored, b \in interp.log_stored : a[1] = b[1] => a[2] = b[2]

====
